---------------------------- MODULE Spec2Model ----------------------------
(***************************************************************************)
(* Model of utils/download_sorter.py: the episode matcher                  *)
(* (match_file_to_episode and its string helpers), the feed parser         *)
(* (parse_rss_feed), the year reconciler (organize_podcasts) and the       *)
(* command line (main).                                                    *)
(*                                                                         *)
(* A Python str is a sequence of characters; a character is a one-letter   *)
(* string.  The two non-ASCII characters the matcher knows are named by    *)
(* their code points: "U29F8" is the big solidus and "UFF1A" the fullwidth *)
(* colon.  "U03D2" is the Greek upsilon with hook symbol, an uppercase     *)
(* letter (category Lu) that has no lowercase form: str.lower() leaves it  *)
(* as it is and the regex class \w has it.                                 *)
(***************************************************************************)
EXTENDS Integers, Sequences, FiniteSets, TLC

VARIABLES
    m_filename,   \* match_file_to_episode: the filename argument
    m_episodes,   \* match_file_to_episode: the episodes argument
    m_pc,         \* "call", "fallback" (past the first loop) or "returned"
    m_result,     \* the index in m_episodes of the episode returned, 0 for None
    m_return,     \* the return statement taken: "guid", "url", "enclosure" or "title"
    \* a helper function run on its own
    f_name,       \* the function called, "none" when no helper is run
    f_arg,        \* its argument
    f_pc,         \* "call", "loop", "returned", "exit" (sys.exit) or "idle"
    f_i,          \* the index of the loop of the function
    f_result,     \* what it has built or returned so far
    \* the environment of the sorter
    feed,         \* the XML feed file
    folder_exists,\* whether the podcast folder exists
    listing,      \* the order in which iterdir() yields the names of the folder
    fs_root,      \* the names of the regular files in the podcast folder
    fs_dirs,      \* the years whose subdirectory exists in the podcast folder
    fs_year,      \* the files in the year subdirectories: <<year, name, content>>
    failures,     \* the OS-level errors and keyboard interrupts raised so far
    runs,         \* the invocations of the sorter so far
    out,          \* what the invocations printed, in order
    exit_code,    \* the exit code of the last invocation, -1 before the first
    \* organize_podcasts
    pc,           \* "idle" between invocations, else the statement reached
    dry_run,      \* the dry_run argument
    episodes,     \* the parsed episodes
    files,        \* the audio files listed
    year_files,   \* year -> sequence of <<file name, index of its episode>>
    unmatched_files,
    years_todo,   \* the years the outer move loop has not started yet
    year,         \* the year of the outer move loop
    file_list,    \* what the inner move loop has not reached yet
    moved_count,
    error_count

matchVars == <<m_filename, m_episodes, m_pc, m_result, m_return>>

callVars == <<f_name, f_arg, f_pc, f_i, f_result>>

\* what the sorter as a process leaves alone
pureVars == <<matchVars, callVars>>

envVars == <<feed, folder_exists, listing, fs_root, fs_dirs, fs_year, failures,
             runs, out, exit_code>>

fsVars == <<fs_root, fs_dirs, fs_year>>

runVars == <<pc, dry_run, episodes, files, year_files, unmatched_files,
             years_todo, year, file_list, moved_count, error_count>>

vars == <<matchVars, callVars, envVars, runVars>>

(***************************************************************************)
(* Characters and the str methods the sorter uses                          *)
(***************************************************************************)
UpperLetters ==
    <<"A","B","C","D","E","F","G","H","I","J","K","L","M",
      "N","O","P","Q","R","S","T","U","V","W","X","Y","Z">>

LowerLetters ==
    <<"a","b","c","d","e","f","g","h","i","j","k","l","m",
      "n","o","p","q","r","s","t","u","v","w","x","y","z">>

Digits == {"0","1","2","3","4","5","6","7","8","9"}

Range(s) == {s[i] : i \in 1..Len(s)}

UpperSet == Range(UpperLetters)

\* the lowercase letter of each uppercase letter
LowerOf ==
    [c \in UpperSet |->
        LowerLetters[CHOOSE i \in 1..Len(UpperLetters) : UpperLetters[i] = c]]

\* str.lower() on one character
LowerChar(c) == IF c \in UpperSet THEN LowerOf[c] ELSE c

\* str.lower()
Lower(s) == [i \in 1..Len(s) |-> LowerChar(s[i])]

WordChars == UpperSet \cup Range(LowerLetters) \cup Digits \cup {"_", "U03D2"}

\* the regex class \w : letters, digits and the underscore
IsWordChar(c) == c \in WordChars

SpaceChars == {" ", "TAB"}

\* the regex class \s
IsSpaceChar(c) == c \in SpaceChars

\* s[a..b] as a sequence (empty when a > b)
Slice(s, a, b) == IF a > b THEN <<>> ELSE SubSeq(s, a, b)

\* Python's a in b for strings: the empty string is in every string
Contains(a, b) ==
    \E k \in 0..(Len(b) - Len(a)) : Slice(b, k + 1, k + Len(a)) = a

StartsWith(s, p) == Len(p) <= Len(s) /\ Slice(s, 1, Len(p)) = p

\* str.replace(old, new) for a one-character old
ReplaceChar(s, old, new) == [i \in 1..Len(s) |-> IF s[i] = old THEN new ELSE s[i]]

\* str.rfind(c): the last index of c, 0 when absent (Python: -1, 0-based)
RFind(s, c) ==
    IF \E i \in 1..Len(s) : s[i] = c
    THEN CHOOSE i \in 1..Len(s) : s[i] = c /\ \A j \in (i + 1)..Len(s) : s[j] # c
    ELSE 0

\* str.rstrip('/')
RECURSIVE RStripSlash(_)
RStripSlash(s) ==
    IF s # <<>> /\ s[Len(s)] = "/" THEN RStripSlash(Slice(s, 1, Len(s) - 1)) ELSE s

\* str.strip(): whitespace off both ends
RECURSIVE LStrip(_)
LStrip(s) == IF s # <<>> /\ IsSpaceChar(Head(s)) THEN LStrip(Tail(s)) ELSE s

RECURSIVE RStrip(_)
RStrip(s) ==
    IF s # <<>> /\ IsSpaceChar(s[Len(s)]) THEN RStrip(Slice(s, 1, Len(s) - 1)) ELSE s

Strip(s) == LStrip(RStrip(s))

\* re.sub(r'\s+', ' ', s): every maximal whitespace run becomes one space
RECURSIVE CollapseSpaces(_)
CollapseSpaces(s) ==
    IF s = <<>> THEN <<>>
    ELSE IF IsSpaceChar(Head(s))
         THEN <<" ">> \o CollapseSpaces(LStrip(s))
         ELSE <<Head(s)>> \o CollapseSpaces(Tail(s))

\* set(s.split()): the distinct maximal runs of non-whitespace characters
SplitWords(s) ==
    LET starts == { a \in 1..Len(s) :
                      ~IsSpaceChar(s[a]) /\ (a = 1 \/ IsSpaceChar(s[a - 1])) }
        EndOf(a) == CHOOSE b \in a..Len(s) :
                      /\ \A i \in a..b : ~IsSpaceChar(s[i])
                      /\ (b = Len(s) \/ IsSpaceChar(s[b + 1]))
    IN  { Slice(s, a, EndOf(a)) : a \in starts }

(***************************************************************************)
(* normalize_filename and extract_url_identifier                           *)
(***************************************************************************)
\* os.path.splitext(p)[0] (posixpath: sep '/', extsep '.'): the extension
\* starts at the last dot, if that dot comes after the last slash and some
\* character between the slash and the dot is not a dot
SplitextRoot(p) ==
    LET sepIndex == RFind(p, "/")
        dotIndex == RFind(p, ".")
    IN  IF /\ dotIndex > sepIndex
           /\ \E i \in (sepIndex + 1)..(dotIndex - 1) : p[i] # "."
        THEN Slice(p, 1, dotIndex - 1)
        ELSE p

\* the characters re.sub(r'[^\w\s-]', '', ...) keeps
KeptChar(c) == IsWordChar(c) \/ IsSpaceChar(c) \/ c = "-"

\* normalize_filename without the call of lower()
normalize_filename_KeepsCase(filename) ==
    LET name0 == SplitextRoot(filename)
        name1 == SelectSeq(name0, KeptChar)
        name2 == CollapseSpaces(name1)
    IN  Strip(name2)

normalize_filename(filename) ==
    LET name0 == SplitextRoot(filename)
        name1 == SelectSeq(Lower(name0), KeptChar)
        name2 == CollapseSpaces(name1)
    IN  Strip(name2)

SchemeHttp == <<"h","t","t","p",":","/","/">>

SchemeHttps == <<"h","t","t","p","s",":","/","/">>

WwwDot == <<"w","w","w",".">>

\* re.sub(r'^https?://(www\.)?', '', url): one scheme at the start, and a
\* "www." only right after it
StripScheme(url) ==
    LET rest == IF StartsWith(url, SchemeHttp)
                THEN Slice(url, Len(SchemeHttp) + 1, Len(url))
                ELSE Slice(url, Len(SchemeHttps) + 1, Len(url))
    IN  IF StartsWith(url, SchemeHttp) \/ StartsWith(url, SchemeHttps)
        THEN IF StartsWith(rest, WwwDot)
             THEN Slice(rest, Len(WwwDot) + 1, Len(rest))
             ELSE rest
        ELSE url

extract_url_identifier(url) == RStripSlash(StripScheme(url))

(***************************************************************************)
(* match_file_to_episode                                                   *)
(***************************************************************************)
AudioExtensions ==
    { <<"m","p","3">>, <<"m","4","a">>, <<"o","p","u","s">>,
      <<"o","g","g">>, <<"w","a","v">>, <<"f","l","a","c">> }

\* The pairs <<i, j>> at which
\* \[([^\]]+)\]\.(mp3|m4a|opus|ogg|wav|flac)$ (re.IGNORECASE) matches:
\* "[" at i, "]" at j, at least one character and no "]" between them, and
\* after j a dot and an audio extension up to the end of the string
BracketSpans(filename) ==
    LET ends == { j \in 1..Len(filename) :
                    /\ filename[j] = "]"
                    /\ j + 1 <= Len(filename)
                    /\ filename[j + 1] = "."
                    /\ Lower(Slice(filename, j + 2, Len(filename))) \in AudioExtensions }
    IN  { p \in (1..Len(filename)) \X ends :
            /\ p[2] >= p[1] + 2
            /\ filename[p[1]] = "["
            /\ \A k \in (p[1] + 1)..(p[2] - 1) : filename[k] # "]" }

\* url_match is not None
HasUrlMatch(filename) == BracketSpans(filename) # {}

\* url_match.group(1): re.search takes the leftmost match
UrlMatchGroup(filename) ==
    LET span == CHOOSE p \in BracketSpans(filename) :
                    \A q \in BracketSpans(filename) : p[1] <= q[1]
    IN  Slice(filename, span[1] + 1, span[2] - 1)

\* .replace(big solidus, '/').replace(fullwidth colon, ':')
NormalizeSubstitutes(s) == ReplaceChar(ReplaceChar(s, "U29F8", "/"), "UFF1A", ":")

\* the guid test: skipped for an empty guid
GuidHit(file_url_id, episode) ==
    /\ episode.guid # <<>>
    /\ LET guid_normalized == NormalizeSubstitutes(episode.guid)
       IN  \/ file_url_id = guid_normalized
           \/ Contains(file_url_id, guid_normalized)
           \/ Contains(guid_normalized, file_url_id)

\* the URL test: made for every episode, also one whose url is empty
UrlHit(file_url_id, episode) ==
    LET episode_url_id == extract_url_identifier(episode.url)
    IN  Contains(file_url_id, episode_url_id) \/ Contains(episode_url_id, file_url_id)

\* the enclosure test: skipped for an empty enclosure_url
EnclosureHit(file_url_id, episode) ==
    /\ episode.enclosure_url # <<>>
    /\ LET enclosure_url_id == extract_url_identifier(episode.enclosure_url)
       IN  \/ Contains(file_url_id, enclosure_url_id)
           \/ Contains(enclosure_url_id, file_url_id)

\* EpisodeHit without the guid test
EpisodeHit_NoGuid(file_url_id, episode) ==
    \/ UrlHit(file_url_id, episode)
    \/ EnclosureHit(file_url_id, episode)

\* the body of the first loop for one episode: does it return this episode
EpisodeHit(file_url_id, episode) ==
    \/ GuidHit(file_url_id, episode)
    \/ UrlHit(file_url_id, episode)
    \/ EnclosureHit(file_url_id, episode)

\* BracketLoop as a best-match pass: an episode whose guid equals the token
\* is preferred to an earlier episode that matches otherwise
BracketLoop_BestMatch(file_url_id, eps, i) ==
    LET exact == { k \in i..Len(eps) :
                     NormalizeSubstitutes(eps[k].guid) = file_url_id }
        hits == { k \in i..Len(eps) : EpisodeHit(file_url_id, eps[k]) }
        Least(S) == CHOOSE k \in S : \A l \in S : k <= l
    IN  IF exact # {} THEN Least(exact)
        ELSE IF hits # {} THEN Least(hits)
        ELSE 0

\* the first loop from episode i on: the index of the episode it returns,
\* 0 when it runs to the end
RECURSIVE BracketLoop(_, _, _)
BracketLoop(file_url_id, eps, i) ==
    IF i > Len(eps) THEN 0
    ELSE IF EpisodeHit(file_url_id, eps[i]) THEN i
         ELSE BracketLoop(file_url_id, eps, i + 1)

\* score > 0.5, as overlap / len(title_words) > ThresholdNum / ThresholdDen
ThresholdNum == 1

ThresholdDen == 2

\* TitleLoop with score >= best_score: a later episode wins a tie
RECURSIVE TitleLoop_LaterWinsTies(_, _, _, _, _, _)
TitleLoop_LaterWinsTies(file_words, eps, i, best_match, best_num, best_den) ==
    IF i > Len(eps) THEN best_match
    ELSE LET title_words == SplitWords(normalize_filename(eps[i].title))
             overlap == Cardinality(file_words \cap title_words)
             len == Cardinality(title_words)
         IN  IF /\ title_words # {}
                /\ overlap * best_den >= best_num * len
                /\ overlap * ThresholdDen > ThresholdNum * len
             THEN TitleLoop_LaterWinsTies(file_words, eps, i + 1, i, overlap, len)
             ELSE TitleLoop_LaterWinsTies(file_words, eps, i + 1,
                                          best_match, best_num, best_den)

\* TitleLoop with score >= 0.5: an overlap of exactly one half matches
RECURSIVE TitleLoop_AtLeastHalf(_, _, _, _, _, _)
TitleLoop_AtLeastHalf(file_words, eps, i, best_match, best_num, best_den) ==
    IF i > Len(eps) THEN best_match
    ELSE LET title_words == SplitWords(normalize_filename(eps[i].title))
             overlap == Cardinality(file_words \cap title_words)
             len == Cardinality(title_words)
         IN  IF /\ title_words # {}
                /\ overlap * best_den > best_num * len
                /\ overlap * ThresholdDen >= ThresholdNum * len
             THEN TitleLoop_AtLeastHalf(file_words, eps, i + 1, i, overlap, len)
             ELSE TitleLoop_AtLeastHalf(file_words, eps, i + 1,
                                        best_match, best_num, best_den)

\* the fallback loop from episode i on.  best_score is the fraction
\* best_num / best_den (0 / 1 at the start); best_match is an index, 0 for None
RECURSIVE TitleLoop(_, _, _, _, _, _)
TitleLoop(file_words, eps, i, best_match, best_num, best_den) ==
    IF i > Len(eps) THEN best_match
    ELSE LET title_words == SplitWords(normalize_filename(eps[i].title))
             overlap == Cardinality(file_words \cap title_words)
             len == Cardinality(title_words)
         IN  IF /\ title_words # {}
                /\ overlap * best_den > best_num * len
                /\ overlap * ThresholdDen > ThresholdNum * len
             THEN TitleLoop(file_words, eps, i + 1, i, overlap, len)
             ELSE TitleLoop(file_words, eps, i + 1, best_match, best_num, best_den)

\* the index in eps of the episode returned, 0 for None
match_file_to_episode(filename, eps) ==
    LET bracket == IF HasUrlMatch(filename)
                   THEN BracketLoop(NormalizeSubstitutes(UrlMatchGroup(filename)),
                                    eps, 1)
                   ELSE 0
    IN  IF bracket # 0 THEN bracket
        ELSE TitleLoop(SplitWords(normalize_filename(filename)), eps, 1, 0, 0, 1)


\* which return statement of the first loop returns this episode
HitKind(file_url_id, episode) ==
    IF GuidHit(file_url_id, episode) THEN "guid"
    ELSE IF UrlHit(file_url_id, episode) THEN "url"
    ELSE "enclosure"

(***************************************************************************)
(* Inputs of the matcher: filenames and episode records                    *)
(***************************************************************************)
\* longest episode list the matcher is given
MaxEpisodes == 3

Sp == <<" ">>

W_go == <<"g","o">>

W_12 == <<"1","2">>

W_13 == <<"1","3">>

W_gen == <<"g","e","n">>

W_mod == <<"m","o","d">>

DotMp3 == <<".","m","p","3">>

Title_Go12Gen == <<"G","o"," ","1","2",":"," ","G","e","n">>

Title_Go13Mod == <<"G","o"," ","1","3",":"," ","M","o","d">>

Title_GoGen == <<"G","o"," ","G","e","n">>

Title_GoMod13Live == <<"G","o"," ","M","o","d"," ","1","3"," ","L","i","v","e">>

Title_NoWords == <<":"," ","!">>

\* a title with a dot: normalize_filename cuts it at the last dot
Title_GoV2Mod == <<"G","o"," ","v","2",".","0"," ","M","o","d">>

Guid_c126 == <<"c","/","1","/","2","6">>

Guid_c12 == <<"c","/","1","/","2">>

Guid_c9 == <<"c","/","9">>

Guid_x7 == <<"x","UFF1A","7">>

Url_g26 == SchemeHttps \o WwwDot \o <<"c","/","g","/","2","6","/">>

Url_g7 == SchemeHttp \o <<"c","/","g","/","7">>

Url_g8 == SchemeHttps \o <<"c","/","g","/","8">>

Enc_d26 == SchemeHttps \o <<"d","/","2","6">> \o DotMp3

Enc_d8 == SchemeHttps \o <<"d","/","8">> \o DotMp3

Episode(t, u, g, e, y) ==
    [title |-> t, url |-> u, guid |-> g, enclosure_url |-> e, year |-> y]

EpisodeCatalog ==
    { Episode(Title_Go12Gen, Url_g26, Guid_c126, Enc_d26, 2020),
      Episode(Title_Go13Mod, Url_g7, Guid_c12, <<>>, 2021),
      Episode(Title_GoGen, <<>>, <<>>, <<>>, 2020),
      Episode(Title_GoMod13Live, Url_g7, Guid_c9, <<>>, 2021),
      Episode(Title_NoWords, Url_g8, Guid_x7, Enc_d8, 2019),
      Episode(Title_GoV2Mod, Url_g8, <<>>, Enc_d26, 2019),
      Episode(Title_Go12Gen, Url_g8, Guid_c9, <<>>, 2021) }

Bracketed(s) == <<"[">> \o s \o <<"]">>

FilenameCatalog ==
    { \* no bracketed token
      W_go \o Sp \o W_12 \o Sp \o W_gen \o DotMp3,
      <<"G","o"," "," ","M","o","d",".","M","P","3">>,
      W_go \o DotMp3,
      <<"z","z">> \o DotMp3,
      W_gen \o Sp \o W_13 \o Sp \o <<"z">> \o Sp \o W_go \o Sp \o W_mod \o <<".","o","g","g">>,
      \* a bracketed token, but no audio extension after it
      W_go \o Sp \o W_12 \o Sp \o W_gen \o Sp \o Bracketed(Guid_c126) \o <<".","t","x","t">>,
      \* a bracketed token before an audio extension
      W_gen \o Sp \o Bracketed(Guid_c126) \o DotMp3,
      <<"a">> \o Sp \o Bracketed(<<"c","U29F8","1","U29F8","2","6">>) \o <<".","M","4","a">>,
      W_go \o Sp \o W_13 \o Sp \o W_mod \o Sp \o Bracketed(Guid_c9) \o <<".","o","p","u","s">>,
      W_go \o Sp \o W_12 \o Sp \o W_gen \o Sp \o Bracketed(<<"q">>) \o DotMp3,
      <<"a">> \o Sp \o Bracketed(Guid_c12) \o <<".","w","a","v">>,
      <<"a">> \o Sp \o Bracketed(<<"g","/","2","6">>) \o <<".","f","l","a","c">>,
      <<"a">> \o Sp \o Bracketed(<<"d","/","8",".","m","p","3">>) \o DotMp3,
      Bracketed(W_go) \o Sp \o Bracketed(<<"x",":","7">>) \o DotMp3 }

\* the sequences over S of length at most n
SeqsUpTo(S, n) == UNION { [1..k -> S] : k \in 0..n }

(***************************************************************************)
(* parse_rss_feed                                                          *)
(*                                                                         *)
(* A feed file is a record: whether it can be opened, whether it is        *)
(* well-formed XML, and its item elements in document order.  An item      *)
(* says whether it has a title and a pubDate element and gives their text  *)
(* and the text of link, guid and the enclosure's url ("" when absent).    *)
(* The text of a pubDate is given by the date format it is written in and  *)
(* the year it names.                                                      *)
(***************************************************************************)
\* the formats of the strptime loop, in its order
StrptimeFormats == <<"rfc822_offset", "rfc822_zone", "iso8601_offset", "datetime", "date">>

\* what only datetime.fromisoformat parses, after ' GMT' became '+0000'
FallbackFormats == {"isoformat"}

\* lines 61-80: the date is parsed by the first format that fits, then by
\* the fallback; otherwise the item is skipped
DateParses(pub_date) ==
    \/ \E k \in 1..Len(StrptimeFormats) : StrptimeFormats[k] = pub_date.format
    \/ pub_date.format \in FallbackFormats

\* ItemKept without the parse of the date
ItemKept_AnyDate(item) ==
    /\ item.has_title
    /\ item.has_pubDate

\* lines 54-55 and 78-80: the item yields an episode
ItemKept(item) ==
    /\ item.has_title
    /\ item.has_pubDate
    /\ DateParses(item.pubDate)

\* lines 82-89
EpisodeOf(item) ==
    [title |-> Strip(item.title), url |-> Strip(item.link), guid |-> Strip(item.guid),
     enclosure_url |-> item.enclosure_url, year |-> item.pubDate.year]

\* lines 47-94: the episodes of the items, in document order
RECURSIVE ParseItems(_)
ParseItems(items) ==
    IF items = <<>> THEN <<>>
    ELSE IF ItemKept(Head(items))
         THEN <<EpisodeOf(Head(items))>> \o ParseItems(Tail(items))
         ELSE ParseItems(Tail(items))

\* lines 96-101: sys.exit(1) instead of a result
ParseFails(f) == ~f.readable \/ ~f.well_formed

parse_rss_feed(f) == ParseItems(f.items)

(***************************************************************************)
(* The feed files and folder contents of the runs                          *)
(***************************************************************************)
\* most audio files in the podcast folder at the start
MaxFiles == 2

\* most invocations of the sorter, one after the other
MaxRuns == 2

\* most OS-level errors (of mkdir and shutil.move) and keyboard interrupts
\* raised in all
MaxFailures == 1

Date(fmt, y) == [format |-> fmt, year |-> y]

Item(ht, t, hd, d, l, g, e) ==
    [has_title |-> ht, title |-> t, has_pubDate |-> hd, pubDate |-> d,
     link |-> l, guid |-> g, enclosure_url |-> e]

Item_Go12Gen ==
    Item(TRUE, Title_Go12Gen, TRUE, Date("rfc822_offset", 2020), Url_g26, Guid_c126, Enc_d26)

Item_Go13Mod ==
    Item(TRUE, Title_Go13Mod, TRUE, Date("isoformat", 2021), Url_g7, Guid_c12, <<>>)

Item_GoMod13Live ==
    Item(TRUE, Title_GoMod13Live, TRUE, Date("date", 2020), Url_g8, Guid_c9, <<>>)

Item_NoTitle ==
    Item(FALSE, <<>>, TRUE, Date("rfc822_offset", 2019), Url_g8, Guid_x7, Enc_d8)

Item_NoDate ==
    Item(TRUE, Title_GoGen, FALSE, Date("unparsable", 0), Url_g8, Guid_x7, <<>>)

Item_BadDate ==
    Item(TRUE, Title_GoGen, TRUE, Date("unparsable", 0), Url_g8, Guid_x7, <<>>)

\* a feed file that exists: whether it can be read, whether it is well-formed
\* "Thu, 02 Jan 2020 03:04:05 GMT"
Item_Zone ==
    Item(TRUE, Title_GoGen, TRUE, Date("rfc822_zone", 2020), Url_g7, <<>>, Enc_d8)

\* "2021-01-02T03:04:05+00:00"
Item_IsoOffset ==
    Item(TRUE, Title_GoMod13Live, TRUE, Date("iso8601_offset", 2021), <<>>, Guid_c9, <<>>)

\* "2019-01-02 03:04:05", and whitespace around the texts
Item_Datetime ==
    Item(TRUE, Sp \o Title_Go13Mod \o <<"TAB">>, TRUE, Date("datetime", 2019),
         Sp \o Url_g8, Guid_x7 \o Sp, <<>>)

\* a pubDate element without text
Item_EmptyDate ==
    Item(TRUE, Title_Go12Gen, TRUE, Date("empty", 0), Url_g26, Guid_c126, <<>>)

\* a title element without text
Item_EmptyTitle ==
    Item(TRUE, <<>>, TRUE, Date("date", 2021), Url_g7, <<>>, <<>>)

\* the items of the feeds parse_rss_feed is run on
ItemCatalog ==
    { Item_Go12Gen, Item_Go13Mod, Item_GoMod13Live, Item_NoTitle, Item_NoDate,
      Item_BadDate, Item_Zone, Item_IsoOffset, Item_Datetime, Item_EmptyDate,
      Item_EmptyTitle }

\* most items of a feed parse_rss_feed is run on
MaxItems == 3

FeedFile(r, w, items) ==
    [exists |-> TRUE, readable |-> r, well_formed |-> w, items |-> items]

\* no file at the path of the feed
MissingFeed == [exists |-> FALSE, readable |-> FALSE, well_formed |-> FALSE, items |-> <<>>]

FeedCatalog ==
    { FeedFile(TRUE, TRUE,
               <<Item_NoTitle, Item_Go12Gen, Item_BadDate, Item_Go13Mod, Item_GoMod13Live>>),
      FeedFile(TRUE, TRUE, <<Item_NoTitle, Item_NoDate, Item_BadDate>>),
      FeedFile(TRUE, FALSE, <<>>),
      FeedFile(FALSE, FALSE, <<>>),
      MissingFeed }

\* matches Item_Go12Gen (2020) by its guid
File_Gen_c126 ==
    W_gen \o Sp \o Bracketed(<<"c","U29F8","1","U29F8","2","6">>) \o DotMp3

\* matches Item_Go13Mod (2021) by its title
File_Go13Mod == W_go \o Sp \o W_13 \o Sp \o W_mod \o <<".","M","P","3">>

\* matches Item_GoMod13Live (2020) by its url
File_a_g8 == <<"a">> \o Sp \o Bracketed(<<"c","U29F8","g","U29F8","8">>) \o <<".","o","g","g">>

\* matches no episode
File_zz == <<"z","z">> \o DotMp3

\* not an audio file
File_notes == <<"n","o","t","e","s",".","t","x","t">>

AudioFileCatalog == {File_Gen_c126, File_Go13Mod, File_a_g8, File_zz}

\* the years of the subdirectories that may exist at the start
YearCatalog == {2020, 2021}

\* the files that may be in a year subdirectory at the start
OldFileCatalog == { <<2020, File_Gen_c126, "old">>, <<2021, File_Go13Mod, "old">> }

\* the sequences that list every element of the finite set S once
Orderings(S) ==
    { q \in [1..Cardinality(S) -> S] : \A x \in S : \E i \in DOMAIN q : q[i] = x }

(***************************************************************************)
(* pathlib and shutil, as the sorter uses them                             *)
(***************************************************************************)
\* Path.suffix: from the last dot of the name, unless that dot is the first
\* or the last character of the name
PathSuffix(name) ==
    LET i == RFind(name, ".")
    IN  IF 1 < i /\ i < Len(name) THEN Slice(name, i, Len(name)) ELSE <<>>

\* line 222
audio_extensions == { <<".">> \o e : e \in AudioExtensions }

\* lines 223-224: the audio files of the folder, in iterdir() order
IsAudioFile(name) == Lower(PathSuffix(name)) \in audio_extensions

\* ListAudioFiles that also finds the audio files of the subdirectories
ListAudioFiles_Recursive(order, root) ==
    LET Listed(name) ==
            IsAudioFile(name) /\ (name \in root \/ \E e \in fs_year : e[2] = name)
    IN  SelectSeq(order, Listed)

ListAudioFiles(order, root) ==
    LET Listed(name) == name \in root /\ IsAudioFile(name)
    IN  SelectSeq(order, Listed)

\* dest_path.exists()
DestExists(y, name) == \E e \in fs_year : e[1] = y /\ e[2] = name

\* the year subdirectories after shutil.move(file, year_folder / name):
\* a rename, which replaces a file already at the destination
YearAfterMove(y, name) ==
    { e \in fs_year : ~(e[1] = y /\ e[2] = name) } \cup { <<y, name, "src">> }

(***************************************************************************)
(* The matching phase of organize_podcasts                                 *)
(***************************************************************************)
\* MatchYearFiles that files a name without an episode under the year 0
RECURSIVE MatchYearFiles_DefaultBucket(_, _, _, _)
MatchYearFiles_DefaultBucket(fl, eps, i, yf) ==
    IF i > Len(fl) THEN yf
    ELSE LET episode == match_file_to_episode(fl[i], eps)
             y == IF episode # 0 THEN eps[episode].year ELSE 0
             old == IF y \in DOMAIN yf THEN yf[y] ELSE <<>>
         IN  MatchYearFiles_DefaultBucket(fl, eps, i + 1,
               [k \in DOMAIN yf \cup {y} |->
                   IF k = y THEN Append(old, <<fl[i], episode>>) ELSE yf[k]])

\* lines 232-238 from file i on: year_files after the loop
RECURSIVE MatchYearFiles(_, _, _, _)
MatchYearFiles(fl, eps, i, yf) ==
    IF i > Len(fl) THEN yf
    ELSE LET episode == match_file_to_episode(fl[i], eps)
         IN  IF episode # 0
             THEN LET y == eps[episode].year
                      old == IF y \in DOMAIN yf THEN yf[y] ELSE <<>>
                  IN  MatchYearFiles(fl, eps, i + 1,
                        [k \in DOMAIN yf \cup {y} |->
                            IF k = y THEN Append(old, <<fl[i], episode>>) ELSE yf[k]])
             ELSE MatchYearFiles(fl, eps, i + 1, yf)

\* UnmatchedOf that also lists the files an episode was found for
UnmatchedOf_EveryFile(fl, eps) == fl

\* lines 232-238: unmatched_files after the loop
UnmatchedOf(fl, eps) ==
    LET NoEpisode(name) == match_file_to_episode(name, eps) = 0
    IN  SelectSeq(fl, NoEpisode)

\* the empty defaultdict
NoYearFiles == [k \in {} |-> <<>>]

\* sorted(S) for a finite set of integers
RECURSIVE Sorted(_)
Sorted(S) ==
    IF S = {} THEN <<>>
    ELSE LET least == CHOOSE x \in S : \A z \in S : x <= z
         IN  <<least>> \o Sorted(S \ {least})

\* most unmatched names the summary prints (line 255)
PreviewCap == 10

\* Summary that lists every unmatched file
Summary_NoCap(fl, yf, um) ==
    <<"summary",
      Len(fl),
      Len(fl) - Len(um),
      Len(um),
      [k \in DOMAIN yf |-> Len(yf[k])],
      um>>

\* lines 244-258: what the summary prints
Summary(fl, yf, um) ==
    <<"summary",
      Len(fl),
      Len(fl) - Len(um),
      Len(um),
      [k \in DOMAIN yf |-> Len(yf[k])],
      Slice(um, 1, IF Len(um) < PreviewCap THEN Len(um) ELSE PreviewCap)>>

(***************************************************************************)
(* match_file_to_episode as a process: the first loop, then the fallback   *)
(***************************************************************************)
\* the run variables when no invocation is running
RunIdle ==
    /\ pc = "idle"
    /\ dry_run = FALSE
    /\ episodes = <<>>
    /\ files = <<>>
    /\ year_files = NoYearFiles
    /\ unmatched_files = <<>>
    /\ years_todo = <<>>
    /\ year = 0
    /\ file_list = <<>>
    /\ moved_count = 0
    /\ error_count = 0

\* the matcher variables when the matcher is not run on its own
MatchIdle ==
    /\ m_filename = <<>>
    /\ m_episodes = <<>>
    /\ m_pc = "idle"
    /\ m_result = 0
    /\ m_return = "none"

\* the helper variables when no helper is run on its own
CallIdle ==
    /\ f_name = "none"
    /\ f_arg = <<>>
    /\ f_pc = "idle"
    /\ f_i = 0
    /\ f_result = <<>>

\* the environment when the sorter is not run
EnvIdle ==
    /\ feed = MissingFeed
    /\ folder_exists = FALSE
    /\ listing = <<>>
    /\ fs_root = {}
    /\ fs_dirs = {}
    /\ fs_year = {}
    /\ failures = 0
    /\ runs = 0
    /\ out = <<>>
    /\ exit_code = -1

InitMatch ==
    /\ m_filename \in FilenameCatalog
    /\ m_episodes \in SeqsUpTo(EpisodeCatalog, MaxEpisodes)
    /\ m_pc = "call"
    /\ m_result = 0
    /\ m_return = "none"
    /\ CallIdle
    /\ EnvIdle
    /\ RunIdle

\* MatchBracket that returns None when the filename has a token that matches
\* no episode, instead of going on to the title fallback
MatchBracket_NoFallbackAfterToken ==
    /\ m_pc = "call"
    /\ LET file_url_id == NormalizeSubstitutes(UrlMatchGroup(m_filename))
           hit == IF HasUrlMatch(m_filename)
                  THEN BracketLoop(file_url_id, m_episodes, 1)
                  ELSE 0
       IN  IF hit # 0
           THEN /\ m_result' = hit
                /\ m_return' = HitKind(file_url_id, m_episodes[hit])
                /\ m_pc' = "returned"
           ELSE IF HasUrlMatch(m_filename)
                THEN /\ m_result' = 0
                     /\ m_return' = "none"
                     /\ m_pc' = "returned"
                ELSE /\ m_pc' = "fallback"
                     /\ UNCHANGED <<m_result, m_return>>
    /\ UNCHANGED <<m_filename, m_episodes>>
    /\ UNCHANGED <<callVars, envVars, runVars>>

\* lines 151-173: the bracketed token and the first loop
MatchBracket ==
    /\ m_pc = "call"
    /\ LET file_url_id == NormalizeSubstitutes(UrlMatchGroup(m_filename))
           hit == IF HasUrlMatch(m_filename)
                  THEN BracketLoop(file_url_id, m_episodes, 1)
                  ELSE 0
       IN  IF hit # 0
           THEN /\ m_result' = hit
                /\ m_return' = HitKind(file_url_id, m_episodes[hit])
                /\ m_pc' = "returned"
           ELSE /\ m_pc' = "fallback"
                /\ UNCHANGED <<m_result, m_return>>
    /\ UNCHANGED <<m_filename, m_episodes>>
    /\ UNCHANGED <<callVars, envVars, runVars>>

\* lines 175-196: the title fallback
MatchFallback ==
    /\ m_pc = "fallback"
    /\ m_result' = TitleLoop(SplitWords(normalize_filename(m_filename)),
                             m_episodes, 1, 0, 0, 1)
    /\ m_return' = "title"
    /\ m_pc' = "returned"
    /\ UNCHANGED <<m_filename, m_episodes>>
    /\ UNCHANGED <<callVars, envVars, runVars>>

NextMatch == MatchBracket \/ MatchFallback

SpecMatch == InitMatch /\ [][NextMatch]_vars

(***************************************************************************)
(* The sorter as a process: invocations of organize_podcasts               *)
(***************************************************************************)
Init ==
    /\ MatchIdle
    /\ CallIdle
    /\ RunIdle
    /\ feed \in FeedCatalog
    /\ folder_exists \in BOOLEAN
    /\ \E audio \in SUBSET AudioFileCatalog :
          /\ Cardinality(audio) <= MaxFiles
          /\ \E order \in Orderings(audio) :
                \/ fs_root = audio /\ listing = order
                \/ fs_root = audio \cup {File_notes} /\ listing = <<File_notes>> \o order
    /\ fs_dirs \in SUBSET YearCatalog
    /\ fs_year \in SUBSET { e \in OldFileCatalog : e[1] \in fs_dirs }
    /\ folder_exists = FALSE => fs_root = {} /\ fs_dirs = {}
    /\ failures = 0
    /\ runs = 0
    /\ out = <<>>
    /\ exit_code = -1

\* the end of an invocation with exit code c, after printing the events ev
Exit(c, ev) ==
    /\ exit_code' = c
    /\ out' = out \o ev
    /\ pc' = "idle"
    /\ dry_run' = FALSE
    /\ episodes' = <<>>
    /\ files' = <<>>
    /\ year_files' = NoYearFiles
    /\ unmatched_files' = <<>>
    /\ years_todo' = <<>>
    /\ year' = 0
    /\ file_list' = <<>>
    /\ moved_count' = 0
    /\ error_count' = 0

\* line 327: argparse rejects the command line (a positional argument is
\* missing, an option is unknown), prints the usage and exits with code 2
UsageError ==
    /\ pc = "idle"
    /\ runs < MaxRuns
    /\ runs' = runs + 1
    /\ Exit(2, << <<"start", FALSE>>, <<"usage">> >>)
    /\ UNCHANGED <<feed, folder_exists, listing, fsVars, failures>>
    /\ UNCHANGED pureVars

\* lines 330-336: a path of the command line does not exist
MissingInput ==
    /\ pc = "idle"
    /\ runs < MaxRuns
    /\ ~feed.exists \/ ~folder_exists
    /\ runs' = runs + 1
    /\ \E d \in BOOLEAN :
          Exit(1, << <<"start", d>>,
                     <<"fatal", IF ~feed.exists THEN "feed not found" ELSE "folder not found">> >>)
    /\ UNCHANGED <<feed, folder_exists, listing, fsVars, failures>>
    /\ UNCHANGED pureVars

\* organize_podcasts(xml_path, podcast_folder, d) is called
Start ==
    /\ pc = "idle"
    /\ runs < MaxRuns
    /\ \E d \in BOOLEAN : dry_run' = d /\ out' = Append(out, <<"start", d>>)
    /\ runs' = runs + 1
    /\ pc' = "parse"
    /\ UNCHANGED <<episodes, files, year_files, unmatched_files, years_todo, year,
                   file_list, moved_count, error_count>>
    /\ UNCHANGED <<feed, folder_exists, listing, fsVars, failures, exit_code>>
    /\ UNCHANGED pureVars

\* ParseFeed without the test of lines 211-213 for an empty episode list
ParseFeed_NoEmptyCheck ==
    /\ pc = "parse"
    /\ IF ParseFails(feed)
       THEN Exit(1, << <<"fatal", "feed">> >>)
       ELSE IF ~folder_exists
       THEN Exit(1, << <<"fatal", "no folder">> >>)
       ELSE /\ episodes' = parse_rss_feed(feed)
            /\ pc' = "list"
            /\ UNCHANGED <<dry_run, files, year_files, unmatched_files, years_todo,
                           year, file_list, moved_count, error_count, out, exit_code>>
    /\ UNCHANGED <<feed, folder_exists, listing, fsVars, failures, runs>>
    /\ UNCHANGED pureVars

\* lines 207-219: the feed is parsed; exit 1 on a feed that does not parse,
\* on no episode and on a missing folder
ParseFeed ==
    /\ pc = "parse"
    /\ IF ParseFails(feed)
       THEN Exit(1, << <<"fatal", "feed">> >>)
       ELSE IF parse_rss_feed(feed) = <<>>
       THEN Exit(1, << <<"fatal", "no episodes">> >>)
       ELSE IF ~folder_exists
       THEN Exit(1, << <<"fatal", "no folder">> >>)
       ELSE /\ episodes' = parse_rss_feed(feed)
            /\ pc' = "list"
            /\ UNCHANGED <<dry_run, files, year_files, unmatched_files, years_todo,
                           year, file_list, moved_count, error_count, out, exit_code>>
    /\ UNCHANGED <<feed, folder_exists, listing, fsVars, failures, runs>>
    /\ UNCHANGED pureVars

\* ListAndMatch that lists no file in a dry run
ListAndMatch_DryRunListsNothing ==
    /\ pc = "list"
    /\ LET fl == IF dry_run THEN <<>> ELSE ListAudioFiles(listing, fs_root)
       IN  /\ files' = fl
           /\ year_files' = MatchYearFiles(fl, episodes, 1, NoYearFiles)
           /\ unmatched_files' = UnmatchedOf(fl, episodes)
    /\ pc' = "summary"
    /\ UNCHANGED <<dry_run, episodes, years_todo, year, file_list, moved_count,
                   error_count>>
    /\ UNCHANGED envVars
    /\ UNCHANGED pureVars

\* lines 221-238: the audio files are listed and matched
ListAndMatch ==
    /\ pc = "list"
    /\ LET fl == ListAudioFiles(listing, fs_root)
       IN  /\ files' = fl
           /\ year_files' = MatchYearFiles(fl, episodes, 1, NoYearFiles)
           /\ unmatched_files' = UnmatchedOf(fl, episodes)
    /\ pc' = "summary"
    /\ UNCHANGED <<dry_run, episodes, years_todo, year, file_list, moved_count,
                   error_count>>
    /\ UNCHANGED envVars
    /\ UNCHANGED pureVars

\* PrintSummary that enters the move phase in a dry run too
PrintSummary_MovesInDryRun ==
    /\ pc = "summary"
    /\ out' = Append(out, Summary(files, year_files, unmatched_files))
    /\ years_todo' = Sorted(DOMAIN year_files)
    /\ file_list' = <<>>
    /\ moved_count' = 0
    /\ error_count' = 0
    /\ pc' = "move"
    /\ UNCHANGED <<dry_run, episodes, files, year_files, unmatched_files, year,
                   exit_code>>
    /\ UNCHANGED <<feed, folder_exists, listing, fsVars, failures, runs>>
    /\ UNCHANGED pureVars

\* lines 240-267 and 294-296: the summary is printed; a dry run ends here
PrintSummary ==
    /\ pc = "summary"
    /\ IF dry_run
       THEN Exit(0, << Summary(files, year_files, unmatched_files), <<"dry run">> >>)
       ELSE /\ out' = Append(out, Summary(files, year_files, unmatched_files))
            /\ years_todo' = Sorted(DOMAIN year_files)
            /\ file_list' = <<>>
            /\ moved_count' = 0
            /\ error_count' = 0
            /\ pc' = "move"
            /\ UNCHANGED <<dry_run, episodes, files, year_files, unmatched_files, year,
                           exit_code>>
    /\ UNCHANGED <<feed, folder_exists, listing, fsVars, failures, runs>>
    /\ UNCHANGED pureVars

\* MkdirYear that takes the years from the latest to the earliest
MkdirYear_LatestFirst ==
    /\ pc = "move"
    /\ file_list = <<>>
    /\ years_todo # <<>>
    /\ year' = years_todo[Len(years_todo)]
    /\ years_todo' = SubSeq(years_todo, 1, Len(years_todo) - 1)
    /\ fs_dirs' = fs_dirs \cup {years_todo[Len(years_todo)]}
    /\ file_list' = year_files[years_todo[Len(years_todo)]]
    /\ UNCHANGED <<pc, dry_run, episodes, files, year_files, unmatched_files,
                   moved_count, error_count>>
    /\ UNCHANGED <<feed, folder_exists, listing, fs_root, fs_year, failures, runs, out,
                   exit_code>>
    /\ UNCHANGED pureVars

\* lines 269-272: the next year of the outer loop; its folder is made
MkdirYear ==
    /\ pc = "move"
    /\ file_list = <<>>
    /\ years_todo # <<>>
    /\ year' = Head(years_todo)
    /\ years_todo' = Tail(years_todo)
    /\ fs_dirs' = fs_dirs \cup {Head(years_todo)}
    /\ file_list' = year_files[Head(years_todo)]
    /\ UNCHANGED <<pc, dry_run, episodes, files, year_files, unmatched_files,
                   moved_count, error_count>>
    /\ UNCHANGED <<feed, folder_exists, listing, fs_root, fs_year, failures, runs, out,
                   exit_code>>
    /\ UNCHANGED pureVars

\* line 271 raises OSError: nothing catches it, the interpreter prints the
\* traceback and exits with code 1
MkdirFails ==
    /\ pc = "move"
    /\ file_list = <<>>
    /\ years_todo # <<>>
    /\ Head(years_todo) \notin fs_dirs
    /\ failures < MaxFailures
    /\ failures' = failures + 1
    /\ Exit(1, << <<"traceback", "mkdir", Head(years_todo)>> >>)
    /\ UNCHANGED <<feed, folder_exists, listing, fsVars, runs>>
    /\ UNCHANGED pureVars

\* the rest of the inner loop after one file
AfterFile ==
    /\ file_list' = Tail(file_list)
    /\ UNCHANGED <<pc, dry_run, episodes, files, year_files, unmatched_files,
                   years_todo, year>>
    /\ UNCHANGED <<feed, folder_exists, listing, runs, exit_code>>
    /\ UNCHANGED pureVars

\* SkipFile without the test of the destination: the file is moved onto it
SkipFile_Overwrites ==
    /\ pc = "move"
    /\ file_list # <<>>
    /\ DestExists(year, Head(file_list)[1])
    /\ fs_root' = fs_root \ {Head(file_list)[1]}
    /\ fs_year' = YearAfterMove(year, Head(file_list)[1])
    /\ moved_count' = moved_count + 1
    /\ out' = Append(out, <<"moved", Head(file_list)[1], year>>)
    /\ UNCHANGED <<fs_dirs, failures, error_count>>
    /\ AfterFile

\* SkipFile that counts the collision as an error
SkipFile_CountsError ==
    /\ pc = "move"
    /\ file_list # <<>>
    /\ DestExists(year, Head(file_list)[1])
    /\ out' = Append(out, <<"skip", Head(file_list)[1], year>>)
    /\ error_count' = error_count + 1
    /\ UNCHANGED <<fsVars, failures, moved_count>>
    /\ AfterFile

\* lines 279-281: the destination exists, the file is skipped
SkipFile ==
    /\ pc = "move"
    /\ file_list # <<>>
    /\ DestExists(year, Head(file_list)[1])
    /\ out' = Append(out, <<"skip", Head(file_list)[1], year>>)
    /\ UNCHANGED <<fsVars, failures, moved_count, error_count>>
    /\ AfterFile

\* lines 283-285: the file is moved
MoveFile ==
    /\ pc = "move"
    /\ file_list # <<>>
    /\ ~DestExists(year, Head(file_list)[1])
    /\ fs_root' = fs_root \ {Head(file_list)[1]}
    /\ fs_year' = YearAfterMove(year, Head(file_list)[1])
    /\ moved_count' = moved_count + 1
    /\ out' = Append(out, <<"moved", Head(file_list)[1], year>>)
    /\ UNCHANGED <<fs_dirs, failures, error_count>>
    /\ AfterFile

\* MoveFails without the except clause: the error ends the run
MoveFails_Uncaught ==
    /\ pc = "move"
    /\ file_list # <<>>
    /\ ~DestExists(year, Head(file_list)[1])
    /\ failures < MaxFailures
    /\ failures' = failures + 1
    /\ Exit(1, << <<"traceback", "move", Head(file_list)[1]>> >>)
    /\ UNCHANGED <<feed, folder_exists, listing, fsVars, runs>>
    /\ UNCHANGED pureVars

\* MoveFails after which the source file is gone
MoveFails_SourceGone ==
    /\ pc = "move"
    /\ file_list # <<>>
    /\ ~DestExists(year, Head(file_list)[1])
    /\ failures < MaxFailures
    /\ failures' = failures + 1
    /\ error_count' = error_count + 1
    /\ out' = Append(out, <<"error", Head(file_list)[1], year>>)
    /\ fs_root' = fs_root \ {Head(file_list)[1]}
    /\ UNCHANGED <<fs_dirs, fs_year, moved_count>>
    /\ AfterFile

\* lines 283 and 287-289: shutil.move raises, the error is counted
MoveFails ==
    /\ pc = "move"
    /\ file_list # <<>>
    /\ ~DestExists(year, Head(file_list)[1])
    /\ failures < MaxFailures
    /\ failures' = failures + 1
    /\ error_count' = error_count + 1
    /\ out' = Append(out, <<"error", Head(file_list)[1], year>>)
    /\ UNCHANGED <<fsVars, moved_count>>
    /\ AfterFile

\* lines 291-293: both loops are done
Completed ==
    /\ pc = "move"
    /\ file_list = <<>>
    /\ years_todo = <<>>
    /\ Exit(0, << <<"completed", moved_count, error_count>> >>)
    /\ UNCHANGED <<feed, folder_exists, listing, fsVars, failures, runs>>
    /\ UNCHANGED pureVars

\* Interrupt without the except clause of line 341: the interpreter ends
\* the process as a shell reports a SIGINT
Interrupt_Uncaught ==
    /\ pc # "idle"
    /\ failures < MaxFailures
    /\ failures' = failures + 1
    /\ Exit(130, << <<"traceback", "interrupt", 0>> >>)
    /\ UNCHANGED <<feed, folder_exists, listing, fsVars, runs>>
    /\ UNCHANGED pureVars

\* Interrupt whose handler prints the completion line first
Interrupt_PrintsCounts ==
    /\ pc # "idle"
    /\ failures < MaxFailures
    /\ failures' = failures + 1
    /\ Exit(0, << <<"completed", moved_count, error_count>>, <<"cancelled">> >>)
    /\ UNCHANGED <<feed, folder_exists, listing, fsVars, runs>>
    /\ UNCHANGED pureVars

\* lines 341-343: KeyboardInterrupt is raised somewhere in organize_podcasts
Interrupt ==
    /\ pc # "idle"
    /\ failures < MaxFailures
    /\ failures' = failures + 1
    /\ Exit(0, << <<"cancelled">> >>)
    /\ UNCHANGED <<feed, folder_exists, listing, fsVars, runs>>
    /\ UNCHANGED pureVars

Next ==
    \/ Start
    \/ ParseFeed
    \/ ListAndMatch
    \/ PrintSummary
    \/ MkdirYear
    \/ MkdirFails
    \/ SkipFile
    \/ MoveFile
    \/ MoveFails
    \/ Completed

Spec == Init /\ [][Next]_vars

(***************************************************************************)
(* The sorter on a folder with many files that match no episode            *)
(***************************************************************************)
\* most files of the folder that match no episode
MaxUnmatched == 12

\* the k-th of them: k times "z", and ".mp3"
UnmatchedName(k) == [i \in 1..k |-> "z"] \o DotMp3

\* the matched files of the folder, in the order they are listed in
MatchedListings ==
    { <<>>,
      <<File_Gen_c126>>,
      <<File_Go13Mod, File_Gen_c126>>,
      <<File_Go13Mod, File_a_g8, File_Gen_c126>> }

\* the good feed, and a folder whose listing is n unmatched files and then
\* the matched ones; the year folder of 2020 may hold a file already
InitLarge ==
    /\ MatchIdle
    /\ CallIdle
    /\ RunIdle
    /\ feed = FeedFile(TRUE, TRUE,
                       <<Item_NoTitle, Item_Go12Gen, Item_BadDate, Item_Go13Mod,
                         Item_GoMod13Live>>)
    /\ folder_exists = TRUE
    /\ \E n \in 0..MaxUnmatched : \E matched \in MatchedListings :
          /\ listing = [k \in 1..n |-> UnmatchedName(k)] \o matched
          /\ fs_root = { UnmatchedName(k) : k \in 1..n } \cup Range(matched)
    /\ \/ fs_dirs = {} /\ fs_year = {}
       \/ fs_dirs = {2020} /\ fs_year = { <<2020, File_Gen_c126, "old">> }
    /\ failures = 0
    /\ runs = 0
    /\ out = <<>>
    /\ exit_code = -1

SpecLarge == InitLarge /\ [][Next]_vars

(***************************************************************************)
(* The command line: invocations of main()                                 *)
(***************************************************************************)
\* lines 327-340: the command line parses, both paths exist and
\* organize_podcasts is called inside the try statement
Main ==
    /\ feed.exists
    /\ folder_exists
    /\ Start

NextMain ==
    \/ UsageError
    \/ MissingInput
    \/ Main
    \/ ParseFeed
    \/ ListAndMatch
    \/ PrintSummary
    \/ MkdirYear
    \/ MkdirFails
    \/ SkipFile
    \/ MoveFile
    \/ MoveFails
    \/ Completed
    \/ Interrupt

\* the folders of the command-line runs: audio files only, and at most one
\* file already in a year subdirectory
InitMain ==
    /\ Init
    /\ File_notes \notin fs_root
    /\ fs_year \subseteq { <<2020, File_Gen_c126, "old">> }

SpecMain == InitMain /\ [][NextMain]_vars

(***************************************************************************)
(* parse_rss_feed as a process: the loop over the item elements            *)
(***************************************************************************)
InitParse ==
    /\ f_name = "parse_rss_feed"
    /\ \/ \E items \in SeqsUpTo(ItemCatalog, MaxItems) : f_arg = FeedFile(TRUE, TRUE, items)
       \/ f_arg \in {FeedFile(TRUE, FALSE, <<>>), FeedFile(FALSE, FALSE, <<>>), MissingFeed}
    /\ f_pc = "call"
    /\ f_i = 0
    /\ f_result = <<>>
    /\ MatchIdle
    /\ EnvIdle
    /\ RunIdle

\* lines 41-44 and 96-101: ET.parse reads the document, or sys.exit(1)
ParseOpen ==
    /\ f_name = "parse_rss_feed"
    /\ f_pc = "call"
    /\ IF ParseFails(f_arg)
       THEN f_pc' = "exit" /\ f_i' = f_i
       ELSE f_pc' = "loop" /\ f_i' = 1
    /\ UNCHANGED <<f_name, f_arg, f_result>>
    /\ UNCHANGED <<matchVars, envVars, runVars>>

\* ParseItemSkipped that leaves the loop at the item it skips
ParseItemSkipped_Breaks ==
    /\ f_name = "parse_rss_feed"
    /\ f_pc = "loop"
    /\ f_i <= Len(f_arg.items)
    /\ ~ItemKept(f_arg.items[f_i])
    /\ f_i' = Len(f_arg.items) + 1
    /\ UNCHANGED <<f_name, f_arg, f_pc, f_result>>
    /\ UNCHANGED <<matchVars, envVars, runVars>>

\* lines 54-55 and 78-80: continue, the item yields nothing
ParseItemSkipped ==
    /\ f_name = "parse_rss_feed"
    /\ f_pc = "loop"
    /\ f_i <= Len(f_arg.items)
    /\ ~ItemKept(f_arg.items[f_i])
    /\ f_i' = f_i + 1
    /\ UNCHANGED <<f_name, f_arg, f_pc, f_result>>
    /\ UNCHANGED <<matchVars, envVars, runVars>>

\* ParseItemKept that puts the episode at the front of the list
ParseItemKept_Prepends ==
    /\ f_name = "parse_rss_feed"
    /\ f_pc = "loop"
    /\ f_i <= Len(f_arg.items)
    /\ ItemKept(f_arg.items[f_i])
    /\ f_result' = <<EpisodeOf(f_arg.items[f_i])>> \o f_result
    /\ f_i' = f_i + 1
    /\ UNCHANGED <<f_name, f_arg, f_pc>>
    /\ UNCHANGED <<matchVars, envVars, runVars>>

\* lines 82-91: the episode of the item is appended
ParseItemKept ==
    /\ f_name = "parse_rss_feed"
    /\ f_pc = "loop"
    /\ f_i <= Len(f_arg.items)
    /\ ItemKept(f_arg.items[f_i])
    /\ f_result' = Append(f_result, EpisodeOf(f_arg.items[f_i]))
    /\ f_i' = f_i + 1
    /\ UNCHANGED <<f_name, f_arg, f_pc>>
    /\ UNCHANGED <<matchVars, envVars, runVars>>

\* lines 93-94: the loop is done, the episodes are returned
ParseReturn ==
    /\ f_name = "parse_rss_feed"
    /\ f_pc = "loop"
    /\ f_i > Len(f_arg.items)
    /\ f_pc' = "returned"
    /\ UNCHANGED <<f_name, f_arg, f_i, f_result>>
    /\ UNCHANGED <<matchVars, envVars, runVars>>

NextParse == ParseOpen \/ ParseItemSkipped \/ ParseItemKept \/ ParseReturn

SpecParse == InitParse /\ [][NextParse]_vars

(***************************************************************************)
(* extract_url_identifier, applied to a string and then to its own result  *)
(***************************************************************************)
\* most parts of a string extract_url_identifier is run on
MaxUrlParts == 3

\* what the strings are put together from
UrlParts == { SchemeHttp, SchemeHttps, WwwDot, <<"c">>, <<"/">>, <<".","g">> }

RECURSIVE Flatten(_)
Flatten(parts) == IF parts = <<>> THEN <<>> ELSE Head(parts) \o Flatten(Tail(parts))

UrlInputs == { Flatten(parts) : parts \in SeqsUpTo(UrlParts, MaxUrlParts) }

InitUrl ==
    /\ f_name = "extract_url_identifier"
    /\ f_arg \in UrlInputs
    /\ f_pc = "call"
    /\ f_i = 0
    /\ f_result = <<>>
    /\ MatchIdle
    /\ EnvIdle
    /\ RunIdle

\* lines 122-135: extract_url_identifier(f_arg) returns
ExtractCall ==
    /\ f_name = "extract_url_identifier"
    /\ f_pc = "call"
    /\ f_result' = <<extract_url_identifier(f_arg)>>
    /\ f_i' = 1
    /\ f_pc' = "returned"
    /\ UNCHANGED <<f_name, f_arg>>
    /\ UNCHANGED <<matchVars, envVars, runVars>>

\* lines 122-135: extract_url_identifier is called on what it returned
ExtractAgain ==
    /\ f_name = "extract_url_identifier"
    /\ f_pc = "returned"
    /\ f_i = 1
    /\ f_result' = Append(f_result, extract_url_identifier(f_result[1]))
    /\ f_i' = 2
    /\ UNCHANGED <<f_name, f_arg, f_pc>>
    /\ UNCHANGED <<matchVars, envVars, runVars>>

NextUrl == ExtractCall \/ ExtractAgain

SpecUrl == InitUrl /\ [][NextUrl]_vars

(***************************************************************************)
(* normalize_filename, applied to a string                                 *)
(***************************************************************************)
\* most characters of a string normalize_filename is run on
MaxNameLen == 3

\* the characters of those strings
NameAlphabet == {"G", "o", "1", "_", "-", " ", "TAB", "!", ".", "U03D2"}

InitNorm ==
    /\ f_name = "normalize_filename"
    /\ f_arg \in SeqsUpTo(NameAlphabet, MaxNameLen)
    /\ f_pc = "call"
    /\ f_i = 0
    /\ f_result = <<>>
    /\ MatchIdle
    /\ EnvIdle
    /\ RunIdle

\* lines 104-119: normalize_filename(f_arg) returns
NormalizeCall ==
    /\ f_name = "normalize_filename"
    /\ f_pc = "call"
    /\ f_result' = normalize_filename(f_arg)
    /\ f_pc' = "returned"
    /\ UNCHANGED <<f_name, f_arg, f_i>>
    /\ UNCHANGED <<matchVars, envVars, runVars>>

NextNorm == NormalizeCall

SpecNorm == InitNorm /\ [][NextNorm]_vars

(***************************************************************************)
(* Properties of match_file_to_episode                                     *)
(***************************************************************************)
\* the bracketed token of the call, substitutes replaced
M_Token == NormalizeSubstitutes(UrlMatchGroup(m_filename))

\* episode i satisfies one of the three comparisons of the first loop
M_Satisfies(i) ==
    LET e == m_episodes[i]
        guid == NormalizeSubstitutes(e.guid)
        url_id == extract_url_identifier(e.url)
        enc_id == extract_url_identifier(e.enclosure_url)
    IN  \/ e.guid # <<>> /\ (Contains(M_Token, guid) \/ Contains(guid, M_Token))
        \/ Contains(M_Token, url_id) \/ Contains(url_id, M_Token)
        \/ e.enclosure_url # <<>>
             /\ (Contains(M_Token, enc_id) \/ Contains(enc_id, M_Token))

M_Indices == 1..Len(m_episodes)

\* the distinct words of the normalized filename and of a normalized title
M_FileWords == SplitWords(normalize_filename(m_filename))

M_TitleWords(i) == SplitWords(normalize_filename(m_episodes[i].title))

M_Overlap(i) == Cardinality(M_FileWords \cap M_TitleWords(i))

M_Size(i) == Cardinality(M_TitleWords(i))

\* the overlap ratio of episode i is defined and above one half
M_Clears(i) == M_Size(i) > 0 /\ 2 * M_Overlap(i) > M_Size(i)

\* ratio of i > ratio of j, both defined
M_RatioGreater(i, j) == M_Overlap(i) * M_Size(j) > M_Overlap(j) * M_Size(i)

\* C1 as claimed: an episode whose guid is exactly the bracketed token is
\* the episode returned, whatever else is in the list.  Stated for the lists
\* in which every episode has a url, so that the URL comparison of an
\* episode without a link plays no part in a violation.
C1_ExactGuidAlwaysReturned ==
    (/\ m_pc = "returned"
     /\ HasUrlMatch(m_filename)
     /\ \A k \in M_Indices : m_episodes[k].url # <<>>) =>
        \A i \in M_Indices :
            m_episodes[i].guid = UrlMatchGroup(m_filename)
                => m_result # 0 /\ m_episodes[m_result] = m_episodes[i]

\* C1 amended: an episode whose guid is exactly the bracketed token is
\* returned when no episode before it in the feed satisfies one of the three
\* comparisons; otherwise the first episode that satisfies one is returned.
\* The titles play no part.
C1_ExactGuidReturnedUnlessEarlierMatch ==
    (m_pc = "returned" /\ HasUrlMatch(m_filename)) =>
        \A i \in M_Indices :
            m_episodes[i].guid = UrlMatchGroup(m_filename)
                => /\ m_result \in 1..i
                   /\ M_Satisfies(m_result)
                   /\ \A j \in 1..(m_result - 1) : ~M_Satisfies(j)
                   /\ (\A j \in 1..(i - 1) : ~M_Satisfies(j)) => m_result = i

\* C1 witness: the exact-guid episode is returned from the second place,
\* and its title shares no word with the filename
C1_Witness ==
    /\ m_pc = "returned"
    /\ HasUrlMatch(m_filename)
    /\ m_result = 2
    /\ m_episodes[2].guid = UrlMatchGroup(m_filename)
    /\ M_Overlap(2) = 0

\* C2: with a bracketed token, the episode returned is the one of lowest
\* feed index that satisfies one of the three comparisons
C2_FirstMatchInFeedOrder ==
    (/\ m_pc = "returned"
     /\ HasUrlMatch(m_filename)
     /\ \E i \in M_Indices : M_Satisfies(i)) =>
        /\ m_result \in M_Indices
        /\ M_Satisfies(m_result)
        /\ \A j \in M_Indices : M_Satisfies(j) => m_result <= j

\* C2 witness: the episode returned matches by substring only, and a later
\* episode has exactly the token as its guid
C2_Witness ==
    /\ m_pc = "returned"
    /\ HasUrlMatch(m_filename)
    /\ m_result = 1
    /\ NormalizeSubstitutes(m_episodes[1].guid) # M_Token
    /\ m_episodes[1].url # <<>>
    /\ \E j \in 2..Len(m_episodes) : m_episodes[j].guid = M_Token

\* C3: when the first loop returned nothing and some ratio is above one
\* half, the episode returned has the greatest ratio, and it is the first
\* of those that have it
C3_BestTitleRatioWins ==
    (m_pc = "returned" /\ m_return = "title"
       /\ \E i \in M_Indices : M_Clears(i)) =>
        /\ m_result \in M_Indices
        /\ M_Clears(m_result)
        /\ \A j \in M_Indices : M_Size(j) > 0 => ~M_RatioGreater(j, m_result)
        /\ \A j \in 1..(m_result - 1) : M_Size(j) > 0 => M_RatioGreater(m_result, j)

\* C3 witness: two episodes tie on the greatest ratio, the first is
\* returned, and the filename has a word that is in neither title
C3_Witness ==
    /\ m_pc = "returned" /\ m_return = "title"
    /\ m_result = 1
    /\ \E j \in 2..Len(m_episodes) :
          /\ M_Clears(j)
          /\ m_episodes[j].title # m_episodes[1].title
          /\ ~M_RatioGreater(1, j) /\ ~M_RatioGreater(j, 1)
    /\ M_FileWords \ UNION { M_TitleWords(i) : i \in M_Indices } # {}

C5_FallbackOnlyAfterBracketFails ==
    m_pc = "returned" =>
        LET matched == /\ HasUrlMatch(m_filename)
                       /\ \E i \in M_Indices : M_Satisfies(i)
        IN  /\ matched => m_return \in {"guid", "url", "enclosure"}
            /\ matched => m_result # 0 /\ M_Satisfies(m_result)
            /\ ~matched => m_return = "title"
            /\ ~matched =>
                  (m_result = 0 <=> \A i \in M_Indices : ~M_Clears(i))

\* C5 witness: the token's episode is returned while another episode has a
\* title ratio above one half and above that of the episode returned
C5_Witness ==
    /\ m_pc = "returned"
    /\ m_return \in {"guid", "url", "enclosure"}
    /\ \E j \in M_Indices :
          /\ M_Clears(j)
          /\ M_Size(m_result) > 0
          /\ M_RatioGreater(j, m_result)

\* a token is present, matches no episode, and the fallback finds one
C5_FallbackAfterUnmatchedToken ==
    /\ m_pc = "returned"
    /\ HasUrlMatch(m_filename)
    /\ m_return = "title"
    /\ m_result # 0

(***************************************************************************)
(* Properties of organize_podcasts                                         *)
(***************************************************************************)
\* the episodes of the feed file
FeedEpisodes == parse_rss_feed(feed)

\* the year folder the file belongs in, 0 when it matches no episode
YearOfFile(name) ==
    LET i == match_file_to_episode(name, FeedEpisodes)
    IN  IF i = 0 THEN 0 ELSE FeedEpisodes[i].year

Last(q) == q[Len(q)]

\* the position in out of the start of the invocation that printed out[i]
RunStart(i) ==
    CHOOSE j \in 1..i :
        out[j][1] = "start" /\ \A k \in (j + 1)..i : out[k][1] # "start"

\* the events in out of the last invocation
LastRunEvents == { out[k] : k \in RunStart(Len(out))..Len(out) }

Attempts(events) == { e \in events : e[1] \in {"skip", "moved", "error"} }

\* the last invocation was a real run that reached its completion line
RealRunCompleted == pc = "idle" /\ out # <<>> /\ Last(out)[1] = "completed"

\* C6: a step never changes or removes a file of a year folder, and a file
\* that a step removes from the podcast folder had no file of its name in
\* the year folder it belongs in
C6_CollisionLeavesBothFiles ==
    [][ /\ \A e \in fs_year : e \in fs_year'
        /\ \A name \in fs_root :
              name \notin fs_root' => ~DestExists(YearOfFile(name), name) ]_vars

\* C6 witness: a real run is complete, it skipped a file, the file is still
\* in the podcast folder and the old file is still in the year folder
C6_Witness ==
    /\ RealRunCompleted
    /\ \E e \in LastRunEvents :
          /\ e[1] = "skip"
          /\ e[2] \in fs_root
          /\ <<e[3], e[2], "old">> \in fs_year
          /\ e[3] = YearOfFile(e[2])

\* C7: no step of a dry run changes the files or the subdirectories
C7_DryRunChangesNothing ==
    [][ (pc # "idle" /\ dry_run) => UNCHANGED fsVars ]_vars

\* C7 witness: a dry run is complete whose summary counts a file for a year
\* that has no subdirectory
C7_Witness ==
    /\ pc = "idle" /\ out # <<>> /\ Last(out)[1] = "dry run"
    /\ \E e \in LastRunEvents :
          /\ e[1] = "summary"
          /\ \E y \in DOMAIN e[5] : y \notin fs_dirs

SummaryPositions == { i \in 1..Len(out) : out[i][1] = "summary" }

\* C8: the summaries of a dry run and of a real run that start from the
\* same folder content (no file was moved in between) give the same total,
\* matched, unmatched and per-year counts
C8_DryAndRealSummariesAgree ==
    \A i \in SummaryPositions : \A j \in SummaryPositions :
        (/\ i < j
         /\ out[RunStart(i)][2] # out[RunStart(j)][2]
         /\ \A k \in i..j : out[k][1] # "moved") =>
            /\ out[i][2] = out[j][2]
            /\ out[i][3] = out[j][3]
            /\ out[i][4] = out[j][4]
            /\ out[i][5] = out[j][5]

\* C8 witness: a dry run and then a real run printed their summaries, with
\* matched and unmatched files, and the real run moved a file
C8_Witness ==
    /\ RealRunCompleted
    /\ \E i \in SummaryPositions : \E j \in SummaryPositions :
          /\ i < j
          /\ out[RunStart(i)][2] = TRUE
          /\ out[RunStart(j)][2] = FALSE
          /\ out[j][3] > 0
          /\ out[j][4] > 0
          /\ \E k \in j..Len(out) : out[k][1] = "moved"

\* C9: a file that a step removes from the podcast folder, or whose name a
\* step gives to a new file in a subdirectory, is not an audio file that
\* matches no episode
C9_UnmatchedFilesStay ==
    [][ \A name \in fs_root :
          (\/ name \notin fs_root'
           \/ \E e \in fs_year' : e[2] = name /\ e \notin fs_year) =>
              ~(IsAudioFile(name) /\ match_file_to_episode(name, FeedEpisodes) = 0) ]_vars

\* C9 witness: a real run is complete that moved a file and left an audio
\* file that matches no episode where it was
C9_Witness ==
    /\ RealRunCompleted
    /\ \E e \in LastRunEvents : e[1] = "moved"
    /\ \E name \in fs_root :
          /\ IsAudioFile(name)
          /\ match_file_to_episode(name, FeedEpisodes) = 0
          /\ \E e \in LastRunEvents : e[1] = "summary" /\ e[4] > 0

\* C10: a failing move adds one to error_count and nothing to moved_count,
\* changes no file, and the loop goes on with the next file; no move ends
\* the run with its exception; and at the completion line every matched
\* file was tried once and the counts printed are those of the moves made
\* and of the moves that failed
C10_MoveFailureDoesNotStopTheRun ==
    /\ [][ (out' # out /\ Last(out')[1] = "error") =>
              /\ error_count' = error_count + 1
              /\ moved_count' = moved_count
              /\ UNCHANGED fsVars
              /\ pc' = "move"
              /\ file_list' = Tail(file_list)
              /\ years_todo' = years_todo ]_vars
    /\ [](\A i \in 1..Len(out) : out[i][1] = "traceback" => out[i][2] = "mkdir")
    /\ [](RealRunCompleted =>
            LET events == LastRunEvents
                summary == CHOOSE e \in events : e[1] = "summary"
            IN  /\ Cardinality({ e[2] : e \in Attempts(events) }) = summary[3]
                /\ Cardinality(Attempts(events)) = summary[3]
                /\ Last(out)[2] = Cardinality({ e \in events : e[1] = "moved" })
                /\ Last(out)[3] = Cardinality({ e \in events : e[1] = "error" }))

\* C10 witness: a real run is complete with one error, and after the move
\* that failed it moved a file of a later year
C10_Witness ==
    /\ RealRunCompleted
    /\ Last(out)[3] = 1
    /\ \E i \in RunStart(Len(out))..Len(out) : \E j \in RunStart(Len(out))..Len(out) :
          /\ i < j
          /\ out[i][1] = "error"
          /\ out[j][1] = "moved"
          /\ out[j][3] > out[i][3]

(***************************************************************************)
(* Properties of a second run                                              *)
(***************************************************************************)
\* an invocation is running and the invocation before it was a real run
\* that reached its completion line
AfterCompletedRun ==
    /\ pc # "idle"
    /\ RunStart(Len(out)) > 1
    /\ out[RunStart(Len(out)) - 1][1] = "completed"

\* the same, and the completion line reported no error
AfterCleanRun == AfterCompletedRun /\ out[RunStart(Len(out)) - 1][3] = 0

\* the names the invocation before the running one moved
MovedByPreviousRun ==
    LET last == RunStart(Len(out)) - 1
    IN  { out[k][2] : k \in { k \in RunStart(last)..last : out[k][1] = "moved" } }

InitialAudio == { name \in Range(listing) : IsAudioFile(name) }

\* the years in whose folder the file that was at the source path is now
MovedTo(name) == { e[1] : e \in { e \in fs_year : e[2] = name /\ e[3] = "src" } }

\* C12: each audio file the folder had at the start is at its source path
\* and in no year folder, or is gone from its source path, was reported as
\* moved and is in the year folder of that report and in no other; the year
\* of a report, checked when it is printed, is the year of the episode the
\* file matches
C12_EachFileInOnePlace ==
    /\ \A name \in InitialAudio :
          IF name \in fs_root
          THEN MovedTo(name) = {}
          ELSE \E i \in 1..Len(out) :
                  /\ out[i][1] = "moved"
                  /\ out[i][2] = name
                  /\ MovedTo(name) = {out[i][3]}
    /\ (out # <<>> /\ Last(out)[1] = "moved") =>
          Last(out)[3] = YearOfFile(Last(out)[2])

\* C12 witness: in the move phase one file of the folder has been moved and
\* another, whose move failed, is still at its source path
C12_Witness ==
    /\ pc = "move"
    /\ \E moved \in InitialAudio : \E failed \in InitialAudio :
          /\ moved \notin fs_root
          /\ failed \in fs_root
          /\ \E i \in 1..Len(out) : out[i][1] = "error" /\ out[i][2] = failed

(***************************************************************************)
(* Properties of parse_rss_feed                                            *)
(***************************************************************************)
\* the date formats one of the five strptime formats or the fallback parses
ParseableFormats ==
    {"rfc822_offset", "rfc822_zone", "iso8601_offset", "datetime", "date", "isoformat"}

\* the item has a title element and a publication date that parses
P_Complete(item) ==
    /\ item.has_title
    /\ item.has_pubDate
    /\ item.pubDate.format \in ParseableFormats

\* the episodes of the complete items among the first n items, in their order
P_Expected(n) ==
    LET complete == SelectSeq(SubSeq(f_arg.items, 1, n), P_Complete)
    IN  [k \in 1..Len(complete) |-> EpisodeOf(complete[k])]

\* C13: parse_rss_feed returns at most as many episodes as the feed has
\* items, and as many exactly when every item has a title element and a
\* publication date that parses
C13_EpisodeCountAtMostItemCount ==
    (f_name = "parse_rss_feed" /\ f_pc = "returned") =>
        /\ Len(f_result) <= Len(f_arg.items)
        /\ Len(f_result) = Len(f_arg.items) <=>
              \A i \in 1..Len(f_arg.items) : P_Complete(f_arg.items[i])
        /\ f_result = parse_rss_feed(f_arg)

\* C13 witness: three items were returned as three episodes, one of them
\* with a date only the fallback parses
C13_Witness ==
    /\ f_name = "parse_rss_feed"
    /\ f_pc = "returned"
    /\ Len(f_arg.items) = 3
    /\ Len(f_result) = 3
    /\ \E i \in 1..3 : f_arg.items[i].pubDate.format = "isoformat"

\* C14: at every point of the loop the result holds the episodes of the
\* complete items it has passed, in their order, so an item without title
\* or date or with a date that does not parse is left out and the items
\* before and after it are returned; and parse_rss_feed exits only when
\* the document cannot be read or is not well-formed
C14_IncompleteItemSkippedOthersParsed ==
    /\ (f_name = "parse_rss_feed" /\ f_pc = "loop") => f_result = P_Expected(f_i - 1)
    /\ (f_name = "parse_rss_feed" /\ f_pc = "returned") =>
          /\ f_i = Len(f_arg.items) + 1
          /\ f_result = P_Expected(Len(f_arg.items))
    /\ (f_name = "parse_rss_feed" /\ f_pc = "exit") =>
          ~f_arg.readable \/ ~f_arg.well_formed

\* C14 witness: of three items the second has a date that does not parse,
\* and the first and the third were returned
C14_Witness ==
    /\ f_name = "parse_rss_feed"
    /\ f_pc = "returned"
    /\ Len(f_arg.items) = 3
    /\ ~P_Complete(f_arg.items[2])
    /\ f_arg.items[2].has_title
    /\ f_arg.items[2].has_pubDate
    /\ f_result = <<EpisodeOf(f_arg.items[1]), EpisodeOf(f_arg.items[3])>>

(***************************************************************************)
(* Properties of extract_url_identifier                                    *)
(***************************************************************************)
\* C15: extract_url_identifier applied to its own result returns that
\* result, whatever the string it was first applied to
C15_ExtractIsIdempotent ==
    (f_name = "extract_url_identifier" /\ f_i = 2) => f_result[2] = f_result[1]

(***************************************************************************)
(* Properties of normalize_filename                                        *)
(***************************************************************************)
\* str.isupper() on one character
N_IsUpper(c) == c \in UpperSet \cup {"U03D2"}

\* no two adjacent spaces, no space at either end
N_SingleSpaces(s) ==
    /\ \A i \in 1..(Len(s) - 1) : ~(s[i] = " " /\ s[i + 1] = " ")
    /\ s # <<>> => s[1] # " " /\ s[Len(s)] # " "

\* C16 as stated: the result has only word characters that are not
\* uppercase letters, single spaces and hyphens
C16_OnlyLowercaseWordCharsSpacesHyphens ==
    (f_name = "normalize_filename" /\ f_pc = "returned") =>
        /\ \A i \in 1..Len(f_result) :
              \/ IsWordChar(f_result[i]) /\ ~N_IsUpper(f_result[i])
              \/ f_result[i] = " "
              \/ f_result[i] = "-"
        /\ N_SingleSpaces(f_result)

\* C16 amended: the result has only word characters that lower() leaves as
\* they are, single spaces and hyphens
C16_OnlyLoweredWordCharsSpacesHyphens ==
    (f_name = "normalize_filename" /\ f_pc = "returned") =>
        /\ \A i \in 1..Len(f_result) :
              \/ IsWordChar(f_result[i]) /\ LowerChar(f_result[i]) = f_result[i]
              \/ f_result[i] = " "
              \/ f_result[i] = "-"
        /\ N_SingleSpaces(f_result)

\* C16 witness: a name with an uppercase letter between whitespace was
\* normalized to its lowercase letter alone
C16_Witness ==
    /\ f_name = "normalize_filename"
    /\ f_pc = "returned"
    /\ f_arg = <<"TAB", "G", " ">>
    /\ f_result = <<"g">>

(***************************************************************************)
(* Properties of the command line                                          *)
(***************************************************************************)
\* an invocation has ended and none is running
Exited == pc = "idle" /\ out # <<>>

\* the feed of the command line does not parse, or parses to no episode
BadFeed == ParseFails(feed) \/ parse_rss_feed(feed) = <<>>

\* the exit code of the last invocation is the one its last line calls for:
\* 0 after the completion line, the dry run notice and the cancellation,
\* 1 after an error message and after a traceback
ExitCodeFitsLastLine ==
    /\ Last(out)[1] \in {"completed", "dry run", "cancelled"} => exit_code = 0
    /\ Last(out)[1] \in {"fatal", "traceback"} => exit_code = 1

\* the exit code of the last invocation is the one the inputs call for: not
\* 0 when a path is missing; not 0 when the feed is bad, unless the run was
\* cancelled first
ExitCodeFitsInputs ==
    /\ (~feed.exists \/ ~folder_exists) => exit_code # 0
    /\ (BadFeed /\ Last(out)[1] # "cancelled") => exit_code # 0

C18_BadFeedExitsBeforeAnyChange ==
    [][ BadFeed =>
          /\ UNCHANGED fsVars
          /\ pc = "parse" =>
                /\ pc' = "idle"
                /\ exit_code' = 1
                /\ Last(out')[1] = "fatal" ]_vars

\* C18 witness: a real run on a feed whose items all lack title or date
\* has exited with code 1, with audio files in the folder
C18_Witness ==
    /\ Exited
    /\ exit_code = 1
    /\ Last(out) = <<"fatal", "no episodes">>
    /\ out[RunStart(Len(out))] = <<"start", FALSE>>
    /\ feed.items # <<>>
    /\ \E name \in fs_root : IsAudioFile(name)

(***************************************************************************)
(* Properties of an interrupted run                                        *)
(***************************************************************************)
\* every audio file the folder had at the start is at its source path or
\* in one year folder, and not in both
NoFileLostOrDuplicated ==
    \A name \in InitialAudio :
        IF name \in fs_root THEN MovedTo(name) = {} ELSE Cardinality(MovedTo(name)) = 1

\* every file the last invocation reported as moved is in the year folder
\* of the report and not in the podcast folder
MovedFilesStayMoved ==
    \A e \in LastRunEvents :
        e[1] = "moved" => <<e[3], e[2], "src">> \in fs_year /\ e[2] \notin fs_root

\* C19 as stated: a step that interrupts the move phase leaves the folder
\* as it is, with the moved files in their year folders and every file in
\* one place, and the run has printed neither summary nor completion line
C19_InterruptedRunPrintsNoReport ==
    [][ (pc = "move" /\ out' # out /\ Last(out')[1] = "cancelled") =>
          /\ UNCHANGED fsVars
          /\ MovedFilesStayMoved'
          /\ NoFileLostOrDuplicated'
          /\ \A e \in LastRunEvents' : e[1] \notin {"summary", "completed"} ]_vars

\* C19 amended: a step that interrupts the move phase leaves the folder as
\* it is, with the moved files in their year folders and every file in one
\* place, and the run has printed its summary, before the move phase, but
\* no completion line
C19_InterruptedRunPrintsNoCompletionLine ==
    [][ (pc = "move" /\ out' # out /\ Last(out')[1] = "cancelled") =>
          /\ UNCHANGED fsVars
          /\ MovedFilesStayMoved'
          /\ NoFileLostOrDuplicated'
          /\ \E e \in LastRunEvents' : e[1] = "summary"
          /\ \A e \in LastRunEvents' : e[1] # "completed" ]_vars

\* C19 witness: a run was cancelled after it had moved one of two matched
\* files; the other is still in the podcast folder
C19_Witness ==
    /\ Exited
    /\ Last(out)[1] = "cancelled"
    /\ Cardinality({ e \in LastRunEvents : e[1] = "moved" }) = 1
    /\ Cardinality(Attempts(LastRunEvents)) = 1
    /\ \E e \in LastRunEvents : e[1] = "summary" /\ e[3] = 2
    /\ \E name \in fs_root : name \in InitialAudio /\ YearOfFile(name) # 0

(***************************************************************************)
(* Properties of a failure of the file system                              *)
(***************************************************************************)
\* the last invocation was a real run that printed its summary and is over
RealRunOverAfterSummary ==
    /\ Exited
    /\ out[RunStart(Len(out))] = <<"start", FALSE>>
    /\ \E e \in LastRunEvents : e[1] = "summary"

\* C20: a real run that got as far as its summary ends with the completion
\* line, after one attempt for every matched file, whatever mkdir and
\* shutil.move raised
C20_NoFailureEndsTheRunEarly ==
    RealRunOverAfterSummary =>
        /\ Last(out)[1] = "completed"
        /\ LET summary == CHOOSE e \in LastRunEvents : e[1] = "summary"
           IN  Cardinality(Attempts(LastRunEvents)) = summary[3]

(***************************************************************************)
(* Properties of a collision                                               *)
(***************************************************************************)
\* C21: the step that reports a skip is taken on a file whose destination
\* exists, changes neither count nor the folder, and leaves the run in the
\* move loop at the next file; the completion line counts no skip
C21_CollisionIsSkipNotError ==
    /\ [][ (out' # out /\ Last(out')[1] = "skip") =>
              /\ DestExists(year, Head(file_list)[1])
              /\ error_count' = error_count
              /\ moved_count' = moved_count
              /\ UNCHANGED fsVars
              /\ pc' = "move"
              /\ file_list' = Tail(file_list)
              /\ years_todo' = years_todo ]_vars
    /\ [](RealRunCompleted =>
            /\ Last(out)[2] = Cardinality({ e \in LastRunEvents : e[1] = "moved" })
            /\ Last(out)[3] = Cardinality({ e \in LastRunEvents : e[1] = "error" }))

\* C21 witness: a real run skipped a file for a collision, then moved
\* another one, and completed with one file moved and no error
C21_Witness ==
    /\ RealRunCompleted
    /\ Last(out)[2] = 1
    /\ Last(out)[3] = 0
    /\ \E i \in RunStart(Len(out))..Len(out) : \E j \in RunStart(Len(out))..Len(out) :
          /\ i < j
          /\ out[i][1] = "skip"
          /\ out[j][1] = "moved"

(***************************************************************************)
(* The order of the episodes parse_rss_feed returns                        *)
(***************************************************************************)
\* C22: the episodes returned are the episodes of items of the feed taken
\* at increasing positions
C22_ResultIsSubsequenceOfItems ==
    (f_name = "parse_rss_feed" /\ f_pc = "returned") =>
        \E at \in [1..Len(f_result) -> 1..Len(f_arg.items)] :
            /\ \A k \in 1..Len(f_result) : f_result[k] = EpisodeOf(f_arg.items[at[k]])
            /\ \A k \in 1..(Len(f_result) - 1) : at[k] < at[k + 1]

\* C22 witness: two different episodes were returned from a feed of three
\* items whose first item yields none
C22_Witness ==
    /\ f_name = "parse_rss_feed"
    /\ f_pc = "returned"
    /\ Len(f_arg.items) = 3
    /\ ~ItemKept(f_arg.items[1])
    /\ Len(f_result) = 2
    /\ f_result[1] # f_result[2]

(***************************************************************************)
(* Properties of the matching phase                                        *)
(***************************************************************************)
\* the matching loop is done and the run is not over
Matched == pc \in {"summary", "move"}

\* the places a listed file is at: 0 for each time it is in the unmatched
\* list, <<y, i, episode>> for the i-th pair of the group of year y
PlacesOf(name) ==
    { <<0, i, 0>> : i \in { i \in 1..Len(unmatched_files) : unmatched_files[i] = name } }
    \cup UNION { { <<y, i, year_files[y][i][2]>> :
                     i \in { i \in 1..Len(year_files[y]) : year_files[y][i][1] = name } } :
                 y \in DOMAIN year_files }

\* C23: after the matching loop every listed file is at one place, the
\* unmatched list or one pair of one year group; the pair names an episode
\* of the parsed list whose year is the key of the group; right after the
\* loop that episode is the one match_file_to_episode returns for the
\* file, and the file is unmatched when it returns none
C23_EachFileInOneGroup ==
    /\ Matched =>
          \A k \in 1..Len(files) :
              /\ Cardinality(PlacesOf(files[k])) = 1
              /\ \A p \in PlacesOf(files[k]) :
                    p[1] # 0 => /\ p[3] \in 1..Len(episodes)
                                /\ episodes[p[3]].year = p[1]
    /\ pc = "summary" =>
          \A k \in 1..Len(files) :
              \A p \in PlacesOf(files[k]) :
                  p[3] = match_file_to_episode(files[k], episodes)

\* C23 witness: of two listed files one is unmatched and the other is in
\* the group of 2021
C23_Witness ==
    /\ pc = "summary"
    /\ Len(files) = 2
    /\ Len(unmatched_files) = 1
    /\ DOMAIN year_files = {2021}
    /\ Len(year_files[2021]) = 1

(***************************************************************************)
(* Properties of the counts a run prints                                   *)
(***************************************************************************)
\* the sum of the values of a function to the naturals
RECURSIVE SumOf(_)
SumOf(f) ==
    IF DOMAIN f = {} THEN 0
    ELSE LET k == CHOOSE k \in DOMAIN f : TRUE
         IN  f[k] + SumOf([j \in DOMAIN f \ {k} |-> f[j]])

\* C24: in every summary matched + unmatched is the total, the counts by
\* year add up to matched, and the names listed are the first 10 of the
\* unmatched at most; the completion line of a real run gives moved and
\* error counts that with the skips of the run add up to matched
C24_CountsAreConsistent ==
    /\ \A i \in SummaryPositions :
          /\ out[i][3] + out[i][4] = out[i][2]
          /\ SumOf(out[i][5]) = out[i][3]
          /\ Len(out[i][6]) <= 10
          /\ Len(out[i][6]) <= out[i][4]
    /\ RealRunCompleted =>
          LET summary == CHOOSE e \in LastRunEvents : e[1] = "summary"
              skips == Cardinality({ e \in LastRunEvents : e[1] = "skip" })
          IN  /\ Last(out)[2] + Last(out)[3] + skips = summary[3]
              /\ Last(out)[2] + Last(out)[3] <= summary[3]

\* C24 witness: a real run on a folder with 12 unmatched and 3 matched
\* files listed 10 names, moved one file, failed on one and skipped one
C24_Witness ==
    /\ RealRunCompleted
    /\ Last(out)[2] = 1
    /\ Last(out)[3] = 1
    /\ \E e \in LastRunEvents : e[1] = "skip"
    /\ \E e \in LastRunEvents :
          /\ e[1] = "summary"
          /\ e[2] = 15
          /\ e[4] = 12
          /\ Len(e[6]) = 10

(***************************************************************************)
(* The order of the move phase                                             *)
(***************************************************************************)
\* the files of year y that the last invocation has attempted
AttemptsOfYear(y) == { e \in Attempts(LastRunEvents) : e[3] = y }

\* a step of the move phase that starts the next year
StartsYear == pc = "move" /\ pc' = "move" /\ years_todo' # years_todo

\* C25: a step that starts a year starts the earliest year not yet
\* started, which has a matched file; every file of every earlier year has
\* been attempted and no file of this or a later year; the step leaves the
\* year's subdirectory in place and changes nothing else of the file
\* system.  A file is moved only into the year started last, and a
\* subdirectory appears only on a step that starts its year
C25_YearsInAscendingOrder ==
    /\ [][ StartsYear =>
              /\ year' \in DOMAIN year_files
              /\ year_files[year'] # <<>>
              /\ \A y \in DOMAIN year_files :
                    /\ y < year' =>
                          Cardinality(AttemptsOfYear(y)) = Len(year_files[y])
                    /\ y >= year' => AttemptsOfYear(y) = {}
              /\ fs_dirs' = fs_dirs \cup {year'}
              /\ UNCHANGED <<fs_root, fs_year>> ]_vars
    /\ [][ fs_dirs' # fs_dirs => StartsYear ]_vars
    /\ [][ (out' # out /\ Last(out')[1] = "moved") =>
              /\ Last(out')[3] = year
              /\ year \in fs_dirs
              /\ \A y \in Range(years_todo) : y > year ]_vars

\* C25 witness: a completed real run found the subdirectory of 2020 with
\* the file's name in it, skipped that file, and then moved a file into
\* 2021
C25_Witness ==
    /\ RealRunCompleted
    /\ \E e \in LastRunEvents : e[1] = "skip" /\ e[3] = 2020
    /\ out[Len(out) - 1][1] = "moved"
    /\ out[Len(out) - 1][3] = 2021

(***************************************************************************)
(* The evidence of a return of the bracketed strategy                      *)
(***************************************************************************)
\* the identifier id is not empty and is in a substring relation with the
\* token of the filename
M_Evidence(id) == id # <<>> /\ (Contains(M_Token, id) \/ Contains(id, M_Token))

\* C26 as claimed: an episode returned by the first loop has a guid, a
\* canonical URL identifier or an enclosure URL identifier that is not
\* empty and is in a substring relation with the token, and an episode
\* returned by the URL comparison has a url
C26_ReturnedOnNonEmptyIdentifier ==
    (m_pc = "returned" /\ m_return \in {"guid", "url", "enclosure"}) =>
        LET e == m_episodes[m_result]
        IN  /\ \/ M_Evidence(NormalizeSubstitutes(e.guid))
               \/ M_Evidence(extract_url_identifier(e.url))
               \/ M_Evidence(extract_url_identifier(e.enclosure_url))
            /\ m_return = "url" => e.url # <<>>

(***************************************************************************)
(* main.py: the scripts of the pipeline, run one after the other           *)
(***************************************************************************)
\* lines 11-18
scripts ==
    <<"1_download.py", "2_transcripts.py", "3_transcriber.py", "4_notes.py",
      "5_summarizer.py", "6_cleanup.py">>

\* lines 21-26
practical_ai_scripts ==
    <<"1_download.py", "3_transcriber.py", "5_summarizer.py", "6_cleanup.py">>

\* lines 29-42
pods ==
    <<"jsparty", "shipit", "founderstalk", "gotime", "rfc", "brainscience",
      "spotlight", "backstage", "afk", "news", "podcast", "friends">>

\* lines 76-114: output_path and podcast_key for the argument of one podcast
PodcastArgs ==
    [ jsparty      |-> <<"JS Party", "jsparty">>,
      shipit       |-> <<"Ship It", "shipit">>,
      founderstalk |-> <<"Founders Talk", "founderstalk">>,
      gotime       |-> <<"Go Time", "gotime">>,
      rfc          |-> <<"Request for Commits", "rfc">>,
      brainscience |-> <<"Brain Science", "brainscience">>,
      spotlight    |-> <<"Spotlight", "spotlight">>,
      backstage    |-> <<"Backstage", "backstage">>,
      afk          |-> <<"Away from Keyboard", "afk">>,
      news         |-> <<"Changelog News", "news">>,
      podcast      |-> <<"Changelog Interviews", "podcast">>,
      interviews   |-> <<"Changelog Interviews", "podcast">>,
      friends      |-> <<"Changelog and Friends", "friends">> ]

\* the values of sys.argv[1] the process is started with
ArgvCatalog == {"practicalai", "all", "gotime", "interviews", "friends", "help"}

\* result.returncode of a script: its exit code, or -N when signal N ended it
ReturnCodes == {0, 1, 2, -9}

\* the exit status the operating system keeps of sys.exit(code)
ExitStatus(code) == code % 256

\* the process at line 73; f_result holds the calls of main() still to be
\* made, whether output_path and podcast_key are bound, the arguments of
\* the call being made, what was run and printed, and the exit status
InitPipeline ==
    /\ f_name = "main.py"
    /\ f_arg \in ArgvCatalog
    /\ f_pc = "call"
    /\ f_i = 0
    /\ f_result = [todo |-> <<>>, bound |-> FALSE, args |-> <<>>, out |-> <<>>,
                   status |-> -1]
    /\ MatchIdle
    /\ EnvIdle
    /\ RunIdle

\* the end of the process with status c after the events ev
PipelineExit(c, ev) ==
    /\ f_pc' = "exit"
    /\ f_result' = [f_result EXCEPT !.out = @ \o ev, !.status = c]
    /\ UNCHANGED <<f_name, f_arg, f_i>>

\* lines 73-120: the chain of comparisons of sys.argv[1]
Dispatch ==
    /\ f_name = "main.py"
    /\ f_pc = "call"
    /\ IF f_arg = "practicalai"
       THEN /\ f_pc' = "practical_ai"
            /\ f_i' = 1
            /\ f_result' = [f_result EXCEPT !.out = Append(@, <<"header", "Practical AI">>)]
            /\ UNCHANGED <<f_name, f_arg>>
       ELSE IF f_arg = "all"
       THEN /\ f_pc' = "line"
            /\ f_result' = [f_result EXCEPT !.todo = [k \in 1..Len(pods) |->
                                                        <<pods[k], pods[k]>>],
                                             !.bound = TRUE]
            /\ UNCHANGED <<f_name, f_arg, f_i>>
       ELSE IF f_arg \in DOMAIN PodcastArgs
       THEN /\ f_pc' = "line"
            /\ f_result' = [f_result EXCEPT !.todo = <<PodcastArgs[f_arg]>>,
                                             !.bound = TRUE]
            /\ UNCHANGED <<f_name, f_arg, f_i>>
       ELSE PipelineExit(1, << <<"usage">> >>)
    /\ UNCHANGED <<matchVars, envVars, runVars>>

\* lines 47 and 121, 61-63: the next call of main(output_path, podcast_key)
CallMain ==
    /\ f_name = "main.py"
    /\ f_pc = "line"
    /\ f_result.bound
    /\ f_result.todo # <<>>
    /\ f_pc' = "main"
    /\ f_i' = 1
    /\ f_result' = [f_result EXCEPT !.todo = Tail(@),
                                     !.args = Head(f_result.todo),
                                     !.out = Append(@, <<"header", Head(f_result.todo)[1]>>)]
    /\ UNCHANGED <<f_name, f_arg>>
    /\ UNCHANGED <<matchVars, envVars, runVars>>

\* RunOf that goes on to the next script whatever the return code
RunOf_IgnoresCode(list, key) ==
    /\ f_i <= Len(list)
    /\ \E code \in ReturnCodes :
          /\ f_i' = f_i + 1
          /\ f_result' = [f_result EXCEPT !.out = Append(@, <<"run", list[f_i], key, code>>)]
          /\ UNCHANGED <<f_name, f_arg, f_pc>>
    /\ UNCHANGED <<matchVars, envVars, runVars>>

\* one turn of a loop over the list: the script runs to its end with some
\* return code; a code other than 0 is printed and ends the process
RunOf(list, key) ==
    /\ f_i <= Len(list)
    /\ \E code \in ReturnCodes :
          IF code # 0
          THEN PipelineExit(ExitStatus(code),
                            << <<"run", list[f_i], key, code>>,
                               <<"error", list[f_i], code>> >>)
          ELSE /\ f_i' = f_i + 1
               /\ f_result' = [f_result EXCEPT !.out = Append(@, <<"run", list[f_i], key, code>>)]
               /\ UNCHANGED <<f_name, f_arg, f_pc>>
    /\ UNCHANGED <<matchVars, envVars, runVars>>

\* lines 65-70
RunScript ==
    /\ f_name = "main.py"
    /\ f_pc = "main"
    /\ RunOf(scripts, f_result.args[2])

\* line 71: the loop is over, main() returns
MainReturns ==
    /\ f_name = "main.py"
    /\ f_pc = "main"
    /\ f_i > Len(scripts)
    /\ f_pc' = "line"
    /\ f_result' = [f_result EXCEPT !.out = Append(@, <<"success">>)]
    /\ UNCHANGED <<f_name, f_arg, f_i>>
    /\ UNCHANGED <<matchVars, envVars, runVars>>

\* lines 53-58
RunPracticalScript ==
    /\ f_name = "main.py"
    /\ f_pc = "practical_ai"
    /\ RunOf(practical_ai_scripts, "practicalai")

\* line 59: the loop is over, practical_ai() returns to line 75, and the
\* statement after the chain is next
PracticalReturns ==
    /\ f_name = "main.py"
    /\ f_pc = "practical_ai"
    /\ f_i > Len(practical_ai_scripts)
    /\ f_pc' = "line"
    /\ f_result' = [f_result EXCEPT !.out = Append(@, <<"success">>)]
    /\ UNCHANGED <<f_name, f_arg, f_i>>
    /\ UNCHANGED <<matchVars, envVars, runVars>>

\* line 121 when no branch has bound output_path: NameError, the
\* interpreter prints the traceback and exits with code 1
UnboundName ==
    /\ f_name = "main.py"
    /\ f_pc = "line"
    /\ ~f_result.bound
    /\ PipelineExit(1, << <<"traceback", "NameError">> >>)
    /\ UNCHANGED <<matchVars, envVars, runVars>>

\* line 118, or the end of the file after line 121
PipelineEnds ==
    /\ f_name = "main.py"
    /\ f_pc = "line"
    /\ f_result.bound
    /\ f_result.todo = <<>>
    /\ PipelineExit(0, <<>>)
    /\ UNCHANGED <<matchVars, envVars, runVars>>

NextPipeline ==
    \/ Dispatch
    \/ CallMain
    \/ RunScript
    \/ MainReturns
    \/ RunPracticalScript
    \/ PracticalReturns
    \/ UnboundName
    \/ PipelineEnds

SpecPipeline == InitPipeline /\ [][NextPipeline]_vars

(***************************************************************************)
(* Properties of the pipeline                                              *)
(***************************************************************************)
\* where a call of main() or practical_ai() starts in what was printed
HeaderPositions == { i \in 1..Len(f_result.out) : f_result.out[i][1] = "header" }

\* the position before which the call that starts at h is over
CallEnd(h) ==
    LET later == { i \in HeaderPositions : i > h }
    IN  IF later = {} THEN Len(f_result.out) + 1
        ELSE CHOOSE i \in later : \A j \in later : i <= j

IsRun(e) == e[1] = "run"

\* the scripts the call that starts at h has run, in the order they ran
RunsOfCall(h) == SelectSeq(SubSeq(f_result.out, h + 1, CallEnd(h) - 1), IsRun)

\* the call that starts at h ran a prefix of the list, each script after
\* the one before it returned 0
RanInOrder(h, list) ==
    LET r == RunsOfCall(h)
    IN  /\ Len(r) <= Len(list)
        /\ \A k \in 1..Len(r) :
              /\ r[k][2] = list[k]
              /\ k < Len(r) => r[k][4] = 0

\* the return code that ended the call that starts at h, 0 when none did
FailureOf(h) ==
    LET r == RunsOfCall(h)
    IN  IF r = <<>> THEN 0 ELSE r[Len(r)][4]

\* after a script of the call at h returned code # 0 nothing more is run
\* and the process is over
NothingAfterFailure(h) ==
    FailureOf(h) # 0 =>
        /\ CallEnd(h) = Len(f_result.out) + 1
        /\ f_result.out[Len(f_result.out) - 1][1] = "run"
        /\ f_pc = "exit"

\* the success line is printed only at the end of a call all of whose
\* scripts returned 0
SuccessOnlyAfterAll(list) ==
    \A i \in 1..Len(f_result.out) :
        f_result.out[i][1] = "success" =>
            \E h \in HeaderPositions :
                /\ CallEnd(h) > i
                /\ Len(RunsOfCall(h)) = Len(list)
                /\ \A k \in 1..Len(list) : RunsOfCall(h)[k][4] = 0
                /\ i = h + Len(list) + 1

\* the process was started for main(): one podcast, or all of them
RunsMain == f_arg # "practicalai"

\* C27 as claimed: main() runs the scripts in the listed order, each after
\* the one before it returned 0; a script that returns another code is the
\* last one run and the process exits with that code; the success line
\* follows six scripts that returned 0
C27_ExitsWithTheScriptsCode ==
    RunsMain =>
        /\ \A h \in HeaderPositions :
              /\ RanInOrder(h, scripts)
              /\ NothingAfterFailure(h)
              /\ FailureOf(h) # 0 => f_result.status = FailureOf(h)
        /\ SuccessOnlyAfterAll(scripts)

\* C27 amended: as claimed, but the exit status of the process is the
\* script's return code modulo 256, which is the code itself only for a
\* script that exited on its own
C27_ExitsWithTheScriptsCodeMod256 ==
    RunsMain =>
        /\ \A h \in HeaderPositions :
              /\ RanInOrder(h, scripts)
              /\ NothingAfterFailure(h)
              /\ FailureOf(h) # 0 => f_result.status = FailureOf(h) % 256
        /\ SuccessOnlyAfterAll(scripts)

\* C27 witness: 1_download.py and 2_transcripts.py returned 0, a signal
\* ended 3_transcriber.py, and the process exited with status 247 after
\* three scripts
C27_Witness ==
    /\ f_arg = "gotime"
    /\ f_pc = "exit"
    /\ f_result.status = 247
    /\ Len(f_result.out) = 5
    /\ f_result.out[4] = <<"run", "3_transcriber.py", "gotime", -9>>

\* C28 as claimed: started with practicalai, when every script returned 0
\* the process ran the four scripts of practical_ai_scripts in order and
\* nothing else, and ended with exit status 0
C28_PracticalAiEndsWithZero ==
    (f_arg = "practicalai" /\ f_pc = "exit"
        /\ \A i \in 1..Len(f_result.out) :
              IsRun(f_result.out[i]) => f_result.out[i][4] = 0) =>
        /\ SelectSeq(f_result.out, IsRun) =
              [k \in 1..Len(practical_ai_scripts) |->
                 <<"run", practical_ai_scripts[k], "practicalai", 0>>]
        /\ f_result.status = 0

(***************************************************************************)
(* 5_summarizer.py: split_text_by_tokens                                   *)
(*                                                                         *)
(* The tokenizer is BERT's: it puts [CLS] and [SEP] around the pieces of   *)
(* the text, splits the text at whitespace, makes one token of every       *)
(* punctuation character, and one piece of a word of its vocabulary.       *)
(***************************************************************************)
\* str.split(): the maximal runs of non-whitespace characters, in order
RECURSIVE SplitList(_)
SplitList(s) ==
    LET t == LStrip(s)
        n == IF \E i \in 1..Len(t) : IsSpaceChar(t[i])
             THEN (CHOOSE i \in 1..Len(t) :
                      IsSpaceChar(t[i]) /\ \A j \in 1..(i - 1) : ~IsSpaceChar(t[j])) - 1
             ELSE Len(t)
    IN  IF t = <<>> THEN <<>>
        ELSE <<Slice(t, 1, n)>> \o SplitList(Slice(t, n + 1, Len(t)))

\* " ".join(words)
RECURSIVE JoinSpace(_)
JoinSpace(words) ==
    IF words = <<>> THEN <<>>
    ELSE IF Len(words) = 1 THEN Head(words)
    ELSE Head(words) \o <<" ">> \o JoinSpace(Tail(words))

PunctuationChars == {"!", "?"}

\* the words of the texts; the letter words are in the vocabulary
WordCatalog == { <<"a">>, <<"g","o">>, <<"!","!">>, <<"?","!","?">> }

\* the tokens of one word: one for each punctuation character, one for a
\* word of the vocabulary
Pieces(word) == IF Range(word) \subseteq PunctuationChars THEN Len(word) ELSE 1

RECURSIVE SumPieces(_)
SumPieces(words) ==
    IF words = <<>> THEN 0 ELSE Pieces(Head(words)) + SumPieces(Tail(words))

\* [CLS] and [SEP]
SpecialTokens == 2

\* len(tokenizer(chunk)["input_ids"])
TokenCount(chunk) == SpecialTokens + SumPieces(SplitList(chunk))

\* most parts of a text, and the largest max_tokens
MaxTextParts == 3

MaxTokenLimit == 4

\* a text is made of parts: a word and the space after it, or a space
TextParts == { w \o <<" ">> : w \in WordCatalog } \cup { <<" ">> }

TextCatalog == { Flatten(parts) : parts \in SeqsUpTo(TextParts, MaxTextParts) }

\* f_result holds chunks and current_chunk; f_i is the word of the loop
InitSplit ==
    /\ f_name = "split_text_by_tokens"
    /\ \E text \in TextCatalog : \E max_tokens \in (SpecialTokens + 1)..MaxTokenLimit :
          f_arg = [text |-> text, max_tokens |-> max_tokens]
    /\ f_pc = "call"
    /\ f_i = 0
    /\ f_result = <<>>
    /\ MatchIdle
    /\ EnvIdle
    /\ RunIdle

\* lines 37-39
SplitCall ==
    /\ f_name = "split_text_by_tokens"
    /\ f_pc = "call"
    /\ f_pc' = "loop"
    /\ f_i' = 1
    /\ f_result' = [chunks |-> <<>>, current_chunk |-> <<>>]
    /\ UNCHANGED <<f_name, f_arg>>
    /\ UNCHANGED <<matchVars, envVars, runVars>>

\* lines 42-48: one word of the loop
SplitWord ==
    /\ f_name = "split_text_by_tokens"
    /\ f_pc = "loop"
    /\ f_i <= Len(SplitList(f_arg.text))
    /\ LET word == SplitList(f_arg.text)[f_i]
           longer == Append(f_result.current_chunk, word)
       IN  IF TokenCount(JoinSpace(longer)) > f_arg.max_tokens
           THEN f_result' = [chunks |-> Append(f_result.chunks,
                                               JoinSpace(f_result.current_chunk)),
                             current_chunk |-> <<word>>]
           ELSE f_result' = [f_result EXCEPT !.current_chunk = longer]
    /\ f_i' = f_i + 1
    /\ UNCHANGED <<f_name, f_arg, f_pc>>
    /\ UNCHANGED <<matchVars, envVars, runVars>>

\* lines 50-53: the last chunk, and the return
SplitReturn ==
    /\ f_name = "split_text_by_tokens"
    /\ f_pc = "loop"
    /\ f_i > Len(SplitList(f_arg.text))
    /\ f_pc' = "returned"
    /\ f_result' = [f_result EXCEPT !.chunks =
                        IF f_result.current_chunk # <<>>
                        THEN Append(@, JoinSpace(f_result.current_chunk))
                        ELSE @]
    /\ UNCHANGED <<f_name, f_arg, f_i>>
    /\ UNCHANGED <<matchVars, envVars, runVars>>

NextSplit ==
    \/ SplitCall
    \/ SplitWord
    \/ SplitReturn

SpecSplit == InitSplit /\ [][NextSplit]_vars

\* the words of the chunks, in order
RECURSIVE WordsOf(_)
WordsOf(chunks) ==
    IF chunks = <<>> THEN <<>> ELSE SplitList(Head(chunks)) \o WordsOf(Tail(chunks))

SplitReturned == f_name = "split_text_by_tokens" /\ f_pc = "returned"

\* C29 as claimed: no returned chunk has more than max_tokens tokens, no
\* chunk is empty, and the words of the chunks in order are the words of
\* the text
C29_ChunksWithinLimit ==
    SplitReturned =>
        /\ \A k \in 1..Len(f_result.chunks) :
              /\ TokenCount(f_result.chunks[k]) <= f_arg.max_tokens
              /\ f_result.chunks[k] # <<>>
        /\ WordsOf(f_result.chunks) = SplitList(f_arg.text)

(***************************************************************************)
(* 4_notes.py: process_podcast and the notes log                           *)
(*                                                                         *)
(* The log is the sequence of the lines of notes.log.  An item of the feed *)
(* is a record of the text of its title and link (has_link says whether    *)
(* the link element is there) and of the year in its pubDate ("" when      *)
(* none).                                                                  *)
(***************************************************************************)
Bar == <<"|">>

\* line 129: the line written for an episode
LogLine(id, title) == id \o Bar \o title

\* line.split('|')[0]
BeforeBar(line) ==
    IF \E i \in 1..Len(line) : line[i] = "|"
    THEN Slice(line, 1, (CHOOSE i \in 1..Len(line) :
                            line[i] = "|" /\ \A j \in 1..(i - 1) : line[j] # "|") - 1)
    ELSE line

\* lines 112-120: the ids of the first n lines of the log
IdsOfLines(lines, n) ==
    { BeforeBar(Strip(lines[k])) :
        k \in { j \in 1..n : Strip(lines[j]) # <<>> /\ Head(Strip(lines[j])) # "#" } }

\* lines 100-123 when the file is read to its end
load_download_log(exists, lines) == IF exists THEN IdsOfLines(lines, Len(lines)) ELSE {}

\* line 191: link.rstrip('/').split('/')[-1]
EpisodeIdOfLink(link) ==
    LET t == RStripSlash(link)
    IN  Slice(t, RFind(t, "/") + 1, Len(t))

\* lines 180-206: the episodes of the items that have a title and a link
RECURSIVE parse_xml_feed(_)
parse_xml_feed(items) ==
    IF items = <<>> THEN <<>>
    ELSE (IF Head(items).has_link
          THEN << [title |-> Head(items).title,
                   episode_id |-> EpisodeIdOfLink(Head(items).link),
                   year |-> Head(items).year] >>
          ELSE <<>>)
         \o parse_xml_feed(Tail(items))

DigitSeq == <<"0","1","2","3","4","5","6","7","8","9">>

\* str(i) for the numbers given to episodes, which are below 10
NumberStr(i) == <<DigitSeq[i + 1]>>

\* assign_practicalai_episode_numbers that forgets the id of the feed
assign_numbers_NoOriginalId(eps) ==
    [k \in 1..Len(eps) |->
        [title |-> eps[k].title,
         episode_id |-> NumberStr(Len(eps) - k + 1),
         year |-> eps[k].year]]

\* lines 155-170: the oldest episode, the last of the list, gets number 1
assign_practicalai_episode_numbers(eps) ==
    [k \in 1..Len(eps) |->
        [title |-> eps[k].title,
         episode_id |-> NumberStr(Len(eps) - k + 1),
         year |-> eps[k].year,
         original_id |-> eps[k].episode_id]]

\* line 315: episode.get('original_id', episode_id)
LogIdOf(e) == IF "original_id" \in DOMAIN e THEN e.original_id ELSE e.episode_id

InvalidChars == {"<", ">", ":", "\"", "/", "\\", "|", "?", "*"}

RECURSIVE RStripDotSpace(_)
RStripDotSpace(s) ==
    IF s # <<>> /\ s[Len(s)] \in {".", " "}
    THEN RStripDotSpace(Slice(s, 1, Len(s) - 1))
    ELSE s

\* lines 86-98
sanitize_filename(name) == RStripDotSpace(SelectSeq(name, LAMBDA c : c \notin InvalidChars))

\* the keys process_podcast is called with: two podcasts, the one without
\* a feed, and a key of no podcast
NotesKeys == {"gotime", "practicalai", "backstage", "nokey"}

NotesItem(t, l, h, y) == [title |-> t, link |-> l, has_link |-> h, year |-> y]

NotesItemCatalog ==
    { NotesItem(<<"G","o">>, <<"c","/","1","2">>, TRUE, <<"2","0","2","0">>),
      NotesItem(<<"a","|","b">>, <<"c","/","7","/">>, TRUE, <<>>),
      NotesItem(<<"G","o",".">>, <<"s","/","a","b">>, TRUE, <<"2","0","2","1">>),
      NotesItem(<<"n","o">>, <<>>, FALSE, <<>>) }

\* most items of a feed of notes; the items of a feed are distinct
MaxNotesItems == 2

\* the notes.log files a first run may find; none is the absent file
NotesLogCatalog ==
    { <<>>,
      << <<"#"," ","n","o","t","e","s">>, <<"1","2","|","G","o">> >>,
      << <<" ">>, <<"7","|","a","|","b">>, <<"a","b","|","G","o",".">> >> }

\* f_result holds the log file, and of the run in progress the set loaded
\* from it, the episodes, and what the run did; f_i is the episode of the
\* loop
InitNotes ==
    /\ f_name = "process_podcast"
    /\ \E key \in NotesKeys : \E items \in SeqsUpTo(NotesItemCatalog, MaxNotesItems) :
          /\ \A i, j \in 1..Len(items) : items[i] = items[j] => i = j
          /\ f_arg = [podcast_key |-> key, items |-> items]
    /\ f_pc = "idle"
    /\ f_i = 0
    /\ \E lines \in NotesLogCatalog : \E exists \in BOOLEAN :
          /\ ~exists => lines = <<>>
          /\ f_result = [log_exists |-> exists, log |-> lines, run |-> 0, fails |-> 0,
                         downloaded_episodes |-> {}, eps |-> <<>>, did |-> <<>>]
    /\ MatchIdle
    /\ EnvIdle
    /\ RunIdle

\* the run returns; the next one may start
NotesReturn(ev) ==
    /\ f_pc' = "idle"
    /\ f_i' = 0
    /\ f_result' = [f_result EXCEPT !.run = @ + 1, !.did = @ \o ev,
                                    !.downloaded_episodes = {}, !.eps = <<>>]
    /\ UNCHANGED <<f_name, f_arg>>

\* lines 275-288: a key of no podcast, or of the podcast without a feed
NotesBadKey ==
    /\ f_name = "process_podcast"
    /\ f_pc = "idle"
    /\ f_result.run < MaxRuns
    /\ f_arg.podcast_key \in {"backstage", "nokey"}
    /\ NotesReturn(<< <<"start", f_result.run + 1>>, <<"no feed">> >>)
    /\ UNCHANGED <<matchVars, envVars, runVars>>

\* lines 290-297: the log is loaded
NotesLoad ==
    /\ f_name = "process_podcast"
    /\ f_pc = "idle"
    /\ f_result.run < MaxRuns
    /\ f_arg.podcast_key \notin {"backstage", "nokey"}
    /\ f_pc' = "feed"
    /\ f_result' = [f_result EXCEPT
                       !.downloaded_episodes = load_download_log(f_result.log_exists,
                                                                 f_result.log),
                       !.did = Append(@, <<"start", f_result.run + 1>>)]
    /\ UNCHANGED <<f_name, f_arg, f_i>>
    /\ UNCHANGED <<matchVars, envVars, runVars>>

\* lines 110-122: open() or a read raises; the warning is printed and the
\* ids read so far are returned
NotesLoadFails ==
    /\ f_name = "process_podcast"
    /\ f_pc = "idle"
    /\ f_result.run < MaxRuns
    /\ f_arg.podcast_key \notin {"backstage", "nokey"}
    /\ f_result.log_exists
    /\ f_result.fails < MaxFailures
    /\ f_pc' = "feed"
    /\ \E n \in 0..(Len(f_result.log) - 1) :
          f_result' = [f_result EXCEPT
                         !.downloaded_episodes = IdsOfLines(f_result.log, n),
                         !.fails = @ + 1,
                         !.did = @ \o << <<"start", f_result.run + 1>>,
                                         <<"warning", "read">> >>]
    /\ UNCHANGED <<f_name, f_arg, f_i>>
    /\ UNCHANGED <<matchVars, envVars, runVars>>

\* lines 300-303: the feed cannot be downloaded
NotesFeedFails ==
    /\ f_name = "process_podcast"
    /\ f_pc = "feed"
    /\ f_result.fails < MaxFailures
    /\ NotesReturn(<< <<"no feed">> >>)
    /\ UNCHANGED <<matchVars, envVars, runVars>>

\* lines 300-312: the feed is downloaded and parsed, the episodes of
\* Practical AI are numbered
NotesFeed ==
    /\ f_name = "process_podcast"
    /\ f_pc = "feed"
    /\ f_pc' = "loop"
    /\ f_i' = 1
    /\ f_result' = [f_result EXCEPT !.eps =
                        IF f_arg.podcast_key = "practicalai"
                        THEN assign_practicalai_episode_numbers(parse_xml_feed(f_arg.items))
                        ELSE parse_xml_feed(f_arg.items)]
    /\ UNCHANGED <<f_name, f_arg>>
    /\ UNCHANGED <<matchVars, envVars, runVars>>

\* the episode of this turn of the loop
ThisEpisode == f_result.eps[f_i]

InLoop == f_name = "process_podcast" /\ f_pc = "loop" /\ f_i <= Len(f_result.eps)

\* lines 318-321: the log id was loaded from the log
NotesSkip ==
    /\ InLoop
    /\ LogIdOf(ThisEpisode) \in f_result.downloaded_episodes
    /\ f_i' = f_i + 1
    /\ f_result' = [f_result EXCEPT !.did = Append(@, <<"skip", LogIdOf(ThisEpisode)>>)]
    /\ UNCHANGED <<f_name, f_arg, f_pc>>
    /\ UNCHANGED <<matchVars, envVars, runVars>>

\* the file the notes of the episode are saved in
NotesFile(e) == <<e.year, sanitize_filename(e.title)>>

\* lines 325-332: the notes are downloaded, saved, and logged
NotesFound ==
    /\ InLoop
    /\ LogIdOf(ThisEpisode) \notin f_result.downloaded_episodes
    /\ f_i' = f_i + 1
    /\ f_result' = [f_result EXCEPT
                       !.log_exists = TRUE,
                       !.log = Append(@, LogLine(LogIdOf(ThisEpisode), ThisEpisode.title)),
                       !.did = @ \o << <<"download", ThisEpisode.episode_id>>,
                                       <<"saved", NotesFile(ThisEpisode)>>,
                                       <<"logged", LogIdOf(ThisEpisode)>> >>]
    /\ UNCHANGED <<f_name, f_arg, f_pc>>
    /\ UNCHANGED <<matchVars, envVars, runVars>>

\* lines 325-332 and 133-134: the notes are saved, the log cannot be
\* written and the warning is printed
NotesFoundLogFails ==
    /\ InLoop
    /\ LogIdOf(ThisEpisode) \notin f_result.downloaded_episodes
    /\ f_result.fails < MaxFailures
    /\ f_i' = f_i + 1
    /\ f_result' = [f_result EXCEPT
                       !.fails = @ + 1,
                       !.did = @ \o << <<"download", ThisEpisode.episode_id>>,
                                       <<"saved", NotesFile(ThisEpisode)>>,
                                       <<"warning", "write">> >>]
    /\ UNCHANGED <<f_name, f_arg, f_pc>>
    /\ UNCHANGED <<matchVars, envVars, runVars>>

\* lines 325-327 and 333-334: GitHub has no notes for the episode, or the
\* request fails
NotesNotFound ==
    /\ InLoop
    /\ LogIdOf(ThisEpisode) \notin f_result.downloaded_episodes
    /\ f_i' = f_i + 1
    /\ f_result' = [f_result EXCEPT
                       !.did = @ \o << <<"download", ThisEpisode.episode_id>>,
                                       <<"not found", LogIdOf(ThisEpisode)>> >>]
    /\ UNCHANGED <<f_name, f_arg, f_pc>>
    /\ UNCHANGED <<matchVars, envVars, runVars>>

\* lines 336-339: the counts are printed
NotesDone ==
    /\ f_name = "process_podcast"
    /\ f_pc = "loop"
    /\ f_i > Len(f_result.eps)
    /\ NotesReturn(<< <<"complete">> >>)
    /\ UNCHANGED <<matchVars, envVars, runVars>>

NextNotes ==
    \/ NotesBadKey
    \/ NotesLoad
    \/ NotesLoadFails
    \/ NotesFeedFails
    \/ NotesFeed
    \/ NotesSkip
    \/ NotesFound
    \/ NotesFoundLogFails
    \/ NotesNotFound
    \/ NotesDone

SpecNotes == InitNotes /\ [][NextNotes]_vars

(***************************************************************************)
(* Properties of the notes log                                             *)
(***************************************************************************)
\* where the run in progress, or the last run, starts in what was done
NotesRunStart ==
    CHOOSE i \in 1..Len(f_result.did) :
        /\ f_result.did[i][1] = "start"
        /\ \A j \in (i + 1)..Len(f_result.did) : f_result.did[j][1] # "start"

\* what the run has done so far
DidThisRun == SubSeq(f_result.did, NotesRunStart, Len(f_result.did))

\* the log as the run found it: without the lines the run has written
LogAtStart ==
    SubSeq(f_result.log, 1,
           Len(f_result.log) - Len(SelectSeq(DidThisRun, LAMBDA e : e[1] = "logged")))

\* a line of the log as the run found it was written for this id
InLogAtStart(id) ==
    \E k \in 1..Len(LogAtStart) : StartsWith(LogAtStart[k], id \o Bar)

\* load_download_log came to the end of the file
LogWasRead == \A k \in 1..Len(DidThisRun) : DidThisRun[k] # <<"warning", "read">>

\* what a step of the loop has done
NewlyDone == SubSeq(f_result.did', Len(f_result.did) + 1, Len(f_result.did'))

LoopStep == f_pc = "loop" /\ f_i' = f_i + 1

Downloads == LoopStep /\ \E k \in 1..Len(NewlyDone) : NewlyDone[k][1] = "download"

\* the id in the feed of the episode of this turn of the loop
FeedIdOfThisEpisode ==
    EpisodeIdOfLink(SelectSeq(f_arg.items, LAMBDA it : it.has_link)[f_i].link)

\* a line is appended to the log only in a step that has downloaded and
\* saved the notes of the episode, and the line is that of its log id
LoggedOnlyAfterSaved ==
    f_result.log' # f_result.log =>
        /\ LoopStep
        /\ Len(NewlyDone) = 3
        /\ NewlyDone[1] = <<"download", ThisEpisode.episode_id>>
        /\ NewlyDone[2][1] = "saved"
        /\ NewlyDone[3] = <<"logged", LogIdOf(ThisEpisode)>>
        /\ f_result.log' = Append(f_result.log,
                                  LogLine(LogIdOf(ThisEpisode), ThisEpisode.title))

\* an episode whose notes were not found leaves the log as it was, and an
\* episode is skipped only when its log id was in the log
NotFoundIsRetried ==
    /\ (LoopStep /\ \E k \in 1..Len(NewlyDone) : NewlyDone[k][1] = "not found") =>
          f_result.log' = f_result.log
    /\ (LoopStep /\ \E k \in 1..Len(NewlyDone) : NewlyDone[k][1] = "skip") =>
          InLogAtStart(LogIdOf(ThisEpisode))

\* the log id is the id of the feed; for Practical AI the notes are asked
\* for by the number given to the episode
LogIdIsFeedId ==
    LoopStep =>
        /\ LogIdOf(ThisEpisode) = FeedIdOfThisEpisode
        /\ f_arg.podcast_key = "practicalai" =>
              /\ ThisEpisode.episode_id = NumberStr(Len(f_result.eps) - f_i + 1)
              /\ Downloads => NewlyDone[1] = <<"download", ThisEpisode.episode_id>>

=============================================================================
